---- MODULE Spec2Model ----
(***************************************************************************)
(* Transactional ledger service: the units of work of TransactionService   *)
(* (recordTransaction, transfer) over the accounts / transactions tables   *)
(* of init.sql, run by concurrent requests, and the idempotency layer in   *)
(* front of them.                                                          *)
(*                                                                         *)
(* The database is modelled at statement granularity with READ COMMITTED   *)
(* visibility: every statement of a unit of work is one step; its writes   *)
(* stay private to the unit of work (wAcc, wTx) until COMMIT applies them  *)
(* to the committed tables (accounts, log); SELECT ... FOR UPDATE takes    *)
(* the row lock, which is kept until COMMIT or ROLLBACK.                   *)
(***************************************************************************)
EXTENDS Integers, Sequences, FiniteSets, TLC

\* ---------------------------------------------------------------- bounds
NumReqs == 2
MaxAmount == 2
MaxBalance == 2
MaxTime == 24
MaxVersion == 2

\* ------------------------------------------------------- program constants
\* storeIdempotencyRecord: expiresAt = now + 24 hours.  One tick of the
\* model's clock is TickHours hours.
ExpiryHours == 24
TickHours == 24

Reqs == 1..NumReqs
\* Two USD accounts; identifiers are ordered as the uuid strings are by sort().
AccountIds == {1, 2}
Amounts == 1..MaxAmount

VARIABLES
  accounts,     \* committed accounts table: id -> row
  log,          \* committed transactions table: set of rows
  accounts0,    \* the accounts table of the initial state (never changes)
  lockHolder,   \* row locks of accounts: id -> holder (0: free)
  pc,           \* request -> position
  req,          \* request -> the request's parameters
  account,      \* recordTransaction: the row read under the lock
  fromAccount,  \* transfer: result of the first SELECT ... FOR UPDATE
  toAccount,    \* transfer: result of the second SELECT ... FOR UPDATE
  lockReqs,     \* request -> ids it has issued SELECT ... FOR UPDATE on, in order
  wAcc,         \* request -> uncommitted account writes of its unit of work
  wTx,          \* request -> uncommitted transaction rows of its unit of work
  result,       \* request -> transaction rows the service call returned
  txTimestamp,  \* request -> CURRENT_TIMESTAMP of its unit of work: the time of BEGIN
  err,          \* request -> error thrown by the service ("none": no error)
  resp,         \* request -> response sent (status, body)
  cached,       \* request -> answered from the idempotency table
  storeQ,       \* request -> its asynchronous storeIdempotencyRecord is pending
  idem,         \* idempotency_keys table: set of records, unique key_hash
  now           \* clock (ticks)

vars == <<accounts, log, accounts0, lockHolder, pc, req, account, fromAccount,
          toAccount, lockReqs, wAcc, wTx, result, txTimestamp, err, resp, cached,
          storeQ, idem, now>>

dbVars == <<accounts, log, accounts0>>
txVars == <<account, fromAccount, toAccount, lockReqs, wAcc, wTx, result,
           txTimestamp>>
httpVars == <<resp, cached, storeQ, idem>>

\* ------------------------------------------------------------------ rows
NoRow == [exists |-> FALSE, id |-> 0, user_id |-> "", currency |-> "", balance |-> 0,
          version |-> 0]
NoWrite == [written |-> FALSE, balance |-> 0, version |-> 0]
NoReq == [op |-> "none", account_id |-> 0, from_account_id |-> 0,
          to_account_id |-> 0, amount |-> 0, key |-> <<>>]
NoBody == [error |-> <<>>, rows |-> <<>>]
NoResp == [status |-> 0, body |-> NoBody]
NoStore == [key_hash |-> <<>>, request_method |-> <<>>, request_path |-> <<>>,
            response_status |-> 0, response_body |-> NoBody, expires_at |-> 0]

\* uuidv4(): a fresh identifier.  Identifiers 1..2 are the rows of the
\* initial deposits; request p generates identifiers 2p+1 and 2p+2.
TxId(p, k) == 2 * p + k

\* ---------------------------------------------------------------- schema
\* init.sql: the constraints of the accounts and transactions tables.
Currencies == {"USD", "INR"}
TransactionTypes == {"DEPOSIT", "WITHDRAWAL", "TRANSFER_DEBIT", "TRANSFER_CREDIT"}

\* accounts.balance ... CHECK (balance >= 0)
BalanceCheck(balance) == balance >= 0

\* What a statement of request p's unit of work sees of account id: its own
\* uncommitted write if it made one, else the committed row.
ViewAccount(p, id) ==
  IF wAcc[p][id].written
  THEN [accounts[id] EXCEPT !.balance = wAcc[p][id].balance,
                            !.version = wAcc[p][id].version]
  ELSE accounts[id]

\* The transaction rows a statement of request p's unit of work sees.
ViewLog(p) == log \cup wTx[p]

\* Mutant of InsertTransaction: related_transaction_id has no foreign key.
InsertTransactionNoForeignKey(view, row) ==
  IF \E t \in view : t.id = row.id THEN "UniqueViolation"
  ELSE IF ~accounts[row.account_id].exists THEN "ForeignKeyViolation"
  ELSE IF row.type \notin TransactionTypes THEN "CheckViolation"
  ELSE IF ~(row.amount > 0) THEN "CheckViolation"
  ELSE IF ~(row.balance_after >= 0) THEN "CheckViolation"
  ELSE "ok"

\* INSERT INTO transactions of row, view being the rows the statement sees:
\* the row's constraints, checked when the statement ends (the foreign keys
\* are not deferrable).  "ok" or the violated constraint.
InsertTransaction(view, row) ==
  IF \E t \in view : t.id = row.id THEN "UniqueViolation"
  ELSE IF ~accounts[row.account_id].exists THEN "ForeignKeyViolation"
  ELSE IF row.type \notin TransactionTypes THEN "CheckViolation"
  ELSE IF ~(row.amount > 0) THEN "CheckViolation"
  ELSE IF ~(row.balance_after >= 0) THEN "CheckViolation"
  ELSE IF row.related_transaction_id # 0
          /\ ~\E t \in view \cup {row} : t.id = row.related_transaction_id
       THEN "ForeignKeyViolation"
  ELSE "ok"

\* ---------------------------------------------------------- AccountService
\* Mutant of UpdateAccountBalance: WHERE id = $2, the version is not compared.
UpdateAccountBalanceAnyVersion(p, accountId, newBalance, version) ==
  IF ~ViewAccount(p, accountId).exists THEN "VersionConflict"
  ELSE IF ~BalanceCheck(newBalance) THEN "CheckViolation"
  ELSE "ok"

\* updateAccountBalance: UPDATE accounts SET balance = $1, version = version + 1
\* WHERE id = $2 AND version = $3; no row updated: 'Concurrent modification'.
UpdateAccountBalance(p, accountId, newBalance, version) ==
  LET row == ViewAccount(p, accountId) IN
  IF ~(row.exists /\ row.version = version) THEN "VersionConflict"
  ELSE IF ~BalanceCheck(newBalance) THEN "CheckViolation"
  ELSE "ok"

\* Mutant of Written: SET balance = $1 only, the version is not incremented.
WrittenKeepsVersion(p, accountId, newBalance) ==
  [wAcc EXCEPT ![p][accountId] =
     [written |-> TRUE, balance |-> newBalance,
      version |-> ViewAccount(p, accountId).version]]

\* The uncommitted write a successful updateAccountBalance leaves.
Written(p, accountId, newBalance) ==
  [wAcc EXCEPT ![p][accountId] =
     [written |-> TRUE, balance |-> newBalance,
      version |-> ViewAccount(p, accountId).version + 1]]

\* A row lock can be taken by p: it is free or p's own.
\* Mutant of LockFree: one lock for the whole accounts table.
LockFreeTable(p, id) == \A a \in AccountIds : lockHolder[a] \in {0, p}

LockFree(p, id) == lockHolder[id] \in {0, p}

\* ------------------------------------------------------------ unit of work
\* database.ts transaction(): BEGIN, callback, COMMIT; on error ROLLBACK.
Begin(p) ==
  /\ pc[p] = "begin"
  /\ pc' = [pc EXCEPT ![p] = IF req[p].op = "TRANSFER" THEN "tfLockFrom" ELSE "rtLock"]
  /\ txTimestamp' = [txTimestamp EXCEPT ![p] = now]
  /\ UNCHANGED <<dbVars, lockHolder, req, account, fromAccount, toAccount, lockReqs,
                 wAcc, wTx, result, err, httpVars, now>>

\* The callback threw err: control goes to the catch block.
Throw(p, e) ==
  /\ err' = [err EXCEPT ![p] = e]
  /\ pc' = [pc EXCEPT ![p] = "rollback"]

ReleaseLocks(p) == [a \in AccountIds |-> IF lockHolder[a] = p THEN 0 ELSE lockHolder[a]]

NoWrites == [a \in AccountIds |-> NoWrite]

\* The callback has returned or thrown: its local variables are gone.
Return(p) ==
  /\ account' = [account EXCEPT ![p] = NoRow]
  /\ fromAccount' = [fromAccount EXCEPT ![p] = NoRow]
  /\ toAccount' = [toAccount EXCEPT ![p] = NoRow]
  /\ lockReqs' = [lockReqs EXCEPT ![p] = <<>>]
  /\ txTimestamp' = [txTimestamp EXCEPT ![p] = 0]

\* Mutant of Commit: the unit of work's rows replace the earlier rows of the
\* same accounts.
CommitReplacesRows(p) ==
  /\ pc[p] = "commit"
  /\ accounts' = [a \in AccountIds |-> ViewAccount(p, a)]
  /\ log' = {t \in log : \A u \in wTx[p] : u.account_id # t.account_id} \cup wTx[p]
  /\ wAcc' = [wAcc EXCEPT ![p] = NoWrites]
  /\ wTx' = [wTx EXCEPT ![p] = {}]
  /\ lockHolder' = ReleaseLocks(p)
  /\ Return(p)
  /\ pc' = [pc EXCEPT ![p] = "respond"]
  /\ UNCHANGED <<accounts0, req, result, err, httpVars, now>>

\* COMMIT: the unit of work's writes become the committed state, together.
Commit(p) ==
  /\ pc[p] = "commit"
  /\ accounts' = [a \in AccountIds |-> ViewAccount(p, a)]
  /\ log' = log \cup wTx[p]
  /\ wAcc' = [wAcc EXCEPT ![p] = NoWrites]
  /\ wTx' = [wTx EXCEPT ![p] = {}]
  /\ lockHolder' = ReleaseLocks(p)
  /\ Return(p)
  /\ pc' = [pc EXCEPT ![p] = "respond"]
  /\ UNCHANGED <<accounts0, req, result, err, httpVars, now>>

\* Mutant of Rollback: the catch block ends the unit of work without
\* discarding its account updates (they are committed instead).
RollbackKeepsUpdates(p) ==
  /\ pc[p] = "rollback"
  /\ accounts' = [a \in AccountIds |-> ViewAccount(p, a)]
  /\ wAcc' = [wAcc EXCEPT ![p] = NoWrites]
  /\ wTx' = [wTx EXCEPT ![p] = {}]
  /\ result' = [result EXCEPT ![p] = <<>>]
  /\ lockHolder' = ReleaseLocks(p)
  /\ Return(p)
  /\ pc' = [pc EXCEPT ![p] = "respond"]
  /\ UNCHANGED <<log, accounts0, req, err, httpVars, now>>

\* ROLLBACK: the unit of work's writes are discarded.
Rollback(p) ==
  /\ pc[p] = "rollback"
  /\ wAcc' = [wAcc EXCEPT ![p] = NoWrites]
  /\ wTx' = [wTx EXCEPT ![p] = {}]
  /\ result' = [result EXCEPT ![p] = <<>>]
  /\ lockHolder' = ReleaseLocks(p)
  /\ Return(p)
  /\ pc' = [pc EXCEPT ![p] = "respond"]
  /\ UNCHANGED <<dbVars, req, err, httpVars, now>>

\* Positions at which request p is executing a statement of its unit of work.
StatementPcs == {"rtLock", "rtUpdate", "rtInsert", "tfLockFrom", "tfLockTo",
                 "tfUpdateFrom", "tfUpdateTo", "tfInsert", "commit"}

\* client.query rejects (an unexpected storage fault): the error propagates
\* out of the callback.
Fault(p) ==
  /\ pc[p] \in StatementPcs
  /\ Throw(p, "InternalFailure")
  /\ UNCHANGED <<dbVars, lockHolder, req, txVars, httpVars, now>>

\* ------------------------------------------------------- TransactionService
\* Mutant of SelectForUpdate: a plain SELECT, which neither waits for the
\* row lock nor takes it.
SelectWithoutLock(p, id) ==
  /\ lockHolder' = lockHolder
  /\ lockReqs' = [lockReqs EXCEPT ![p] = Append(@, id)]

\* SELECT ... FROM accounts WHERE id = $1 FOR UPDATE by request p: no row
\* and no lock when the account does not exist; otherwise the statement
\* waits until the row lock is free, takes it and returns the committed row.
SelectForUpdate(p, id) ==
  /\ accounts[id].exists => LockFree(p, id)
  /\ lockHolder' = IF accounts[id].exists
                   THEN [lockHolder EXCEPT ![id] = p] ELSE lockHolder
  /\ lockReqs' = [lockReqs EXCEPT ![p] = Append(@, id)]

Selected(p, id) == IF accounts[id].exists THEN ViewAccount(p, id) ELSE NoRow

\* Mutant of NewBalance: a withdrawal is added like a deposit.
NewBalanceAlwaysAdds(type, balance, amount) == balance + amount

\* recordTransaction, lines 35-45.
NewBalance(type, balance, amount) ==
  IF type = "DEPOSIT" THEN balance + amount ELSE balance - amount

\* recordTransaction: getAccountWithLock.
RtLock(p) ==
  /\ pc[p] = "rtLock"
  /\ SelectForUpdate(p, req[p].account_id)
  /\ account' = [account EXCEPT ![p] = Selected(p, req[p].account_id)]
  /\ IF accounts[req[p].account_id].exists
     THEN pc' = [pc EXCEPT ![p] = "rtUpdate"] /\ UNCHANGED err
     ELSE Throw(p, "AccountNotFound")
  /\ UNCHANGED <<dbVars, req, fromAccount, toAccount, wAcc, wTx, result, httpVars,
                 txTimestamp, now>>

\* Mutant of RtUpdate: no overdraft protection (neither the check of the
\* new balance nor the balance constraint stops a withdrawal).
RtUpdateNoOverdraftCheck(p) ==
  /\ pc[p] = "rtUpdate"
  /\ LockFree(p, account[p].id)
  /\ wAcc' = Written(p, account[p].id,
                     NewBalance(req[p].op, account[p].balance, req[p].amount))
  /\ lockHolder' = [lockHolder EXCEPT ![account[p].id] = p]
  /\ pc' = [pc EXCEPT ![p] = "rtInsert"]
  /\ UNCHANGED <<dbVars, req, account, fromAccount, toAccount, lockReqs, wTx,
                 result, err, httpVars, txTimestamp, now>>

\* recordTransaction: the balance computation, the overdraft check and
\* updateAccountBalance.
RtUpdate(p) ==
  /\ pc[p] = "rtUpdate"
  /\ LockFree(p, account[p].id)
  /\ LET newBalance == NewBalance(req[p].op, account[p].balance, req[p].amount)
         r == UpdateAccountBalance(p, account[p].id, newBalance, account[p].version)
     IN IF req[p].op = "WITHDRAWAL" /\ newBalance < 0
        THEN Throw(p, "InsufficientFunds") /\ UNCHANGED <<wAcc, lockHolder>>
        ELSE IF r # "ok"
        THEN Throw(p, r) /\ UNCHANGED <<wAcc, lockHolder>>
        ELSE /\ wAcc' = Written(p, account[p].id, newBalance)
             /\ lockHolder' = [lockHolder EXCEPT ![account[p].id] = p]
             /\ pc' = [pc EXCEPT ![p] = "rtInsert"]
             /\ UNCHANGED err
  /\ UNCHANGED <<dbVars, req, account, fromAccount, toAccount, lockReqs, wTx,
                 result, httpVars, txTimestamp, now>>

\* recordTransaction: INSERT INTO transactions ... RETURNING.
RtInsert(p) ==
  /\ pc[p] = "rtInsert"
  /\ LET row == [id |-> TxId(p, 1), account_id |-> account[p].id,
                 type |-> req[p].op, amount |-> req[p].amount,
                 balance_after |-> NewBalance(req[p].op, account[p].balance, req[p].amount),
                 related_transaction_id |-> 0, created_at |-> txTimestamp[p]]
         r == InsertTransaction(ViewLog(p), row)
     IN IF r # "ok"
        THEN Throw(p, r) /\ UNCHANGED <<wTx, result>>
        ELSE /\ wTx' = [wTx EXCEPT ![p] = @ \cup {row}]
             /\ result' = [result EXCEPT ![p] = <<row>>]
             /\ pc' = [pc EXCEPT ![p] = "commit"]
             /\ UNCHANGED err
  /\ UNCHANGED <<dbVars, lockHolder, req, account, fromAccount, toAccount, lockReqs,
                 wAcc, httpVars, now, txTimestamp>>

\* Mutant of RtInsert: the row is inserted unchecked.
RtInsertUnchecked(p) ==
  /\ pc[p] = "rtInsert"
  /\ LET row == [id |-> TxId(p, 1), account_id |-> account[p].id,
                 type |-> req[p].op, amount |-> req[p].amount,
                 balance_after |-> NewBalance(req[p].op, account[p].balance, req[p].amount),
                 related_transaction_id |-> 0, created_at |-> txTimestamp[p]]
     IN /\ wTx' = [wTx EXCEPT ![p] = @ \cup {row}]
        /\ result' = [result EXCEPT ![p] = <<row>>]
        /\ pc' = [pc EXCEPT ![p] = "commit"]
  /\ UNCHANGED <<dbVars, lockHolder, req, account, fromAccount, toAccount, lockReqs,
                 wAcc, err, httpVars, now, txTimestamp>>

\* Mutant of RecordTransaction: no overdraft protection at all; the new
\* balance is neither checked by the service nor by a constraint of the
\* schema (the balance is guarded three times, the mutant drops all three).
RecordTransactionNoOverdraftCheck(p) ==
  RtLock(p) \/ RtUpdateNoOverdraftCheck(p) \/ RtInsertUnchecked(p)

\* recordTransaction: the statements of its callback.
RecordTransaction(p) == RtLock(p) \/ RtUpdate(p) \/ RtInsert(p)

\* transfer: the first SELECT ... FOR UPDATE.
TfLockFrom(p) ==
  /\ pc[p] = "tfLockFrom"
  /\ SelectForUpdate(p, req[p].from_account_id)
  /\ fromAccount' = [fromAccount EXCEPT ![p] = Selected(p, req[p].from_account_id)]
  /\ pc' = [pc EXCEPT ![p] = "tfLockTo"]
  /\ UNCHANGED <<dbVars, req, account, toAccount, wAcc, wTx, result, err, httpVars,
                 txTimestamp, now>>

\* transfer: the second SELECT ... FOR UPDATE.
TfLockTo(p) ==
  /\ pc[p] = "tfLockTo"
  /\ SelectForUpdate(p, req[p].to_account_id)
  /\ toAccount' = [toAccount EXCEPT ![p] = Selected(p, req[p].to_account_id)]
  /\ pc' = [pc EXCEPT ![p] = "tfUpdateFrom"]
  /\ UNCHANGED <<dbVars, req, account, fromAccount, wAcc, wTx, result, err, httpVars,
                 txTimestamp, now>>

\* Mutant of TransferCheck: the currencies are not compared.
TransferCheckNoCurrency(from, to, amount) ==
  IF ~from.exists THEN "FromAccountNotFound"
  ELSE IF ~to.exists THEN "ToAccountNotFound"
  ELSE IF from.balance - amount < 0 THEN "InsufficientFunds"
  ELSE "ok"

\* Mutant of TransferCheck: the funds are checked before the currencies.
TransferCheckFundsFirst(from, to, amount) ==
  IF ~from.exists THEN "FromAccountNotFound"
  ELSE IF ~to.exists THEN "ToAccountNotFound"
  ELSE IF from.balance - amount < 0 THEN "InsufficientFunds"
  ELSE IF from.currency # to.currency THEN "CurrencyMismatch"
  ELSE "ok"

\* transfer, lines 103-123: the checks, in the order of the code.
TransferCheck(from, to, amount) ==
  IF ~from.exists THEN "FromAccountNotFound"
  ELSE IF ~to.exists THEN "ToAccountNotFound"
  ELSE IF from.currency # to.currency THEN "CurrencyMismatch"
  ELSE IF from.balance - amount < 0 THEN "InsufficientFunds"
  ELSE "ok"

\* transfer: the checks and updateAccountBalance of the source.
TfUpdateFrom(p) ==
  /\ pc[p] = "tfUpdateFrom"
  /\ LET from == fromAccount[p]
         to == toAccount[p]
         c == TransferCheck(from, to, req[p].amount)
         newFromBalance == from.balance - req[p].amount
         r == UpdateAccountBalance(p, from.id, newFromBalance, from.version)
     IN IF c # "ok"
        THEN Throw(p, c) /\ UNCHANGED <<wAcc, lockHolder>>
        ELSE /\ LockFree(p, from.id)
             /\ IF r # "ok"
                THEN Throw(p, r) /\ UNCHANGED <<wAcc, lockHolder>>
                ELSE /\ wAcc' = Written(p, from.id, newFromBalance)
                     /\ lockHolder' = [lockHolder EXCEPT ![from.id] = p]
                     /\ pc' = [pc EXCEPT ![p] = "tfUpdateTo"]
                     /\ UNCHANGED err
  /\ UNCHANGED <<dbVars, req, account, fromAccount, toAccount, lockReqs, wTx,
                 result, httpVars, txTimestamp, now>>

\* transfer: updateAccountBalance of the destination.
TfUpdateTo(p) ==
  /\ pc[p] = "tfUpdateTo"
  /\ LockFree(p, toAccount[p].id)
  /\ LET to == toAccount[p]
         newToBalance == to.balance + req[p].amount
         r == UpdateAccountBalance(p, to.id, newToBalance, to.version)
     IN IF r # "ok"
        THEN Throw(p, r) /\ UNCHANGED <<wAcc, lockHolder>>
        ELSE /\ wAcc' = Written(p, to.id, newToBalance)
             /\ lockHolder' = [lockHolder EXCEPT ![to.id] = p]
             /\ pc' = [pc EXCEPT ![p] = "tfInsert"]
             /\ UNCHANGED err
  /\ UNCHANGED <<dbVars, req, account, fromAccount, toAccount, lockReqs, wTx,
                 result, httpVars, txTimestamp, now>>

\* transfer, lines 142-194: the debit INSERT, then the credit INSERT, then
\* the two rows are fetched.  Each INSERT is a statement of its own, so the
\* debit row is checked against the rows that exist when it is inserted.
TfInsert(p) ==
  /\ pc[p] = "tfInsert"
  /\ LET debitId == TxId(p, 1)
         creditId == TxId(p, 2)
         debit == [id |-> debitId, account_id |-> fromAccount[p].id,
                   type |-> "TRANSFER_DEBIT", amount |-> req[p].amount,
                   balance_after |-> fromAccount[p].balance - req[p].amount,
                   related_transaction_id |-> creditId,
                   created_at |-> txTimestamp[p]]
         credit == [id |-> creditId, account_id |-> toAccount[p].id,
                    type |-> "TRANSFER_CREDIT", amount |-> req[p].amount,
                    balance_after |-> toAccount[p].balance + req[p].amount,
                    related_transaction_id |-> debitId,
                   created_at |-> txTimestamp[p]]
         r1 == InsertTransaction(ViewLog(p), debit)
         r2 == InsertTransaction(ViewLog(p) \cup {debit}, credit)
     IN IF r1 # "ok"
        THEN Throw(p, r1) /\ UNCHANGED <<wTx, result>>
        ELSE IF r2 # "ok"
        THEN Throw(p, r2) /\ wTx' = [wTx EXCEPT ![p] = @ \cup {debit}] /\ UNCHANGED result
        ELSE /\ wTx' = [wTx EXCEPT ![p] = @ \cup {debit, credit}]
             /\ result' = [result EXCEPT ![p] = <<debit, credit>>]
             /\ pc' = [pc EXCEPT ![p] = "commit"]
             /\ UNCHANGED err
  /\ UNCHANGED <<dbVars, lockHolder, req, account, fromAccount, toAccount, lockReqs,
                 wAcc, httpVars, now, txTimestamp>>

\* transfer: the statements of its callback.
Transfer(p) ==
  TfLockFrom(p) \/ TfLockTo(p) \/ TfUpdateFrom(p) \/ TfUpdateTo(p) \/ TfInsert(p)

\* ------------------------------------------------------- deadlock detection
LockPcs == {"rtLock", "tfLockFrom", "tfLockTo"}

\* The account whose row lock request p's current statement asks for.
Wanted(p) ==
  IF pc[p] = "rtLock" THEN req[p].account_id
  ELSE IF pc[p] = "tfLockFrom" THEN req[p].from_account_id
  ELSE req[p].to_account_id

\* Request p's SELECT ... FOR UPDATE waits for a lock another request holds.
Blocked(p) ==
  /\ pc[p] \in LockPcs
  /\ accounts[Wanted(p)].exists
  /\ ~LockFree(p, Wanted(p))

WaitsOn(p) == IF Blocked(p) THEN lockHolder[Wanted(p)] ELSE 0

RECURSIVE Chain(_, _)
Chain(p, n) ==
  IF n = 0 THEN p
  ELSE LET c == Chain(p, n - 1) IN IF c = 0 THEN 0 ELSE WaitsOn(c)

\* p is on a cycle of requests each waiting for a lock the next one holds.
InCycle(p) == \E n \in 1..NumReqs : Chain(p, n) = p

\* Mutant of DeadlockAbort: the database has no deadlock detector.
NoDeadlockAbort(p) == FALSE /\ UNCHANGED vars

\* The database's deadlock detector ends the wait of a request on a cycle:
\* its SELECT ... FOR UPDATE fails with 'deadlock detected'.
DeadlockAbort(p) ==
  /\ Blocked(p)
  /\ InCycle(p)
  /\ Throw(p, "DeadlockDetected")
  /\ UNCHANGED <<dbVars, lockHolder, req, txVars, httpVars, now>>

\* ------------------------------------------------------------ HTTP boundary
\* The messages of the errors thrown, as fragments (so that errorHandler's
\* message.includes(...) is a test for a fragment).
Message(e) ==
  IF e = "VersionConflict" THEN <<"Concurrent modification", " detected. Please retry.">>
  ELSE IF e = "InsufficientFunds" THEN <<"Insufficient funds", ". Account cannot go negative.">>
  ELSE IF e = "AccountNotFound" THEN <<"Account ", "not found">>
  ELSE IF e = "FromAccountNotFound" THEN <<"From account ", "not found">>
  ELSE IF e = "ToAccountNotFound" THEN <<"To account ", "not found">>
  ELSE IF e = "CurrencyMismatch" THEN <<"Cannot transfer between ", "different currencies">>
  ELSE IF e = "SameAccount" THEN <<"Cannot transfer to the same account">>
  ELSE <<e>>

Includes(msg, fragment) == \E i \in DOMAIN msg : msg[i] = fragment

\* errorHandler: the response to a thrown Error.
ErrorResponse(e) ==
  IF Includes(Message(e), "Concurrent modification")
  THEN [status |-> 409,
        body |-> [error |-> <<"Concurrent modification", " detected. Please retry.">>,
                  rows |-> <<>>]]
  ELSE IF Includes(Message(e), "Insufficient funds")
  THEN [status |-> 400, body |-> [error |-> Message(e), rows |-> <<>>]]
  ELSE [status |-> 500, body |-> [error |-> <<"Internal server error">>, rows |-> <<>>]]

\* routes: res.status(201).json(result), or the error handler's response.
Response(p) ==
  IF err[p] = "none"
  THEN [status |-> 201, body |-> [error |-> <<>>, rows |-> result[p]]]
  ELSE ErrorResponse(err[p])

\* generateIdempotencyKeyHash: sha256 of method:path:key.  Strings are
\* sequences of fragments; the digest of a string stands for the string
\* (no two strings of the model share a digest).
Method(r) == <<"POST">>
Path(r) == IF r.op = "TRANSFER" THEN <<"/api/transactions", "/transfer">>
           ELSE <<"/api/transactions">>
Sha256(s) == <<"sha256">> \o s
GenerateIdempotencyKeyHash(method, path, key) ==
  Sha256(method \o <<":">> \o path \o <<":">> \o key)
KeyHash(r) == GenerateIdempotencyKeyHash(Method(r), Path(r), r.key)

\* Where the route handler starts: transfer throws for from = to before it
\* opens a unit of work.
SameAccount(r) == r.op = "TRANSFER" /\ r.from_account_id = r.to_account_id
\* Mutant of EntryPc: from = to is not looked at before the unit of work.
EntryPcAlwaysBegin(r) == "begin"
EntryPc(r) == IF SameAccount(r) THEN "respond" ELSE "begin"
EntryErr(r) == IF SameAccount(r) THEN "SameAccount" ELSE "none"

\* A request r arrives as request p (requests are numbered by arrival).
Start(p, r) ==
  /\ pc[p] = "idle"
  /\ \A q \in Reqs : q < p => pc[q] # "idle"
  /\ req' = [req EXCEPT ![p] = r]
  /\ pc' = [pc EXCEPT ![p] = IF r.key = <<>> THEN EntryPc(r) ELSE "lookup"]
  /\ err' = [err EXCEPT ![p] = IF r.key = <<>> THEN EntryErr(r) ELSE "none"]
  /\ UNCHANGED <<dbVars, lockHolder, txVars, httpVars, now>>

\* storeIdempotencyRecord, lines 44-45 and the INSERT's values: the record
\* of a response sent at time t.  The body is kept as the JSON value it is
\* sent as.
IdempotencyRecord(r, response, t) ==
  [key_hash |-> KeyHash(r), request_method |-> Method(r), request_path |-> Path(r),
   response_status |-> response.status, response_body |-> response.body,
   expires_at |-> t + ExpiryHours]

\* Mutant of Respond: only the response of a request that succeeded is
\* stored.
RespondStoresSuccessOnly(p) ==
  /\ pc[p] = "respond"
  /\ resp' = [resp EXCEPT ![p] = Response(p)]
  /\ storeQ' = [storeQ EXCEPT ![p] =
                  IF req[p].key # <<>> /\ Response(p).status < 400
                  THEN IdempotencyRecord(req[p], Response(p), now) ELSE NoStore]
  /\ pc' = [pc EXCEPT ![p] = "done"]
  /\ UNCHANGED <<dbVars, lockHolder, req, txVars, err, cached, idem, now>>

\* The response is sent; with an idempotency key the overridden res.json
\* first calls storeIdempotencyRecord, whose INSERT is not awaited.
Respond(p) ==
  /\ pc[p] = "respond"
  /\ resp' = [resp EXCEPT ![p] = Response(p)]
  /\ storeQ' = [storeQ EXCEPT ![p] =
                  IF req[p].key # <<>>
                  THEN IdempotencyRecord(req[p], Response(p), now) ELSE NoStore]
  /\ pc' = [pc EXCEPT ![p] = "done"]
  /\ UNCHANGED <<dbVars, lockHolder, req, txVars, err, cached, idem, now>>

\* Mutant of GetIdempotencyRecord: the expiry time is not compared.
GetIdempotencyRecordIgnoresExpiry(keyHash) == {r \in idem : r.key_hash = keyHash}

\* Mutant of GetIdempotencyRecord: the lookup never finds a record.
GetIdempotencyRecordMisses(keyHash) == {}

\* getIdempotencyRecord: the unexpired records of the key hash.
GetIdempotencyRecord(keyHash) ==
  {r \in idem : r.key_hash = keyHash /\ r.expires_at > now}

\* idempotencyMiddleware for a request with a key: the cached response of an
\* unexpired record, else the route handler runs.
Lookup(p) ==
  /\ pc[p] = "lookup"
  /\ LET found == GetIdempotencyRecord(KeyHash(req[p]))
     IN IF found # {}
        THEN /\ \E r \in found :
                  resp' = [resp EXCEPT ![p] = [status |-> r.response_status,
                                               body |-> r.response_body]]
             /\ cached' = [cached EXCEPT ![p] = TRUE]
             /\ pc' = [pc EXCEPT ![p] = "done"]
             /\ UNCHANGED err
        ELSE /\ pc' = [pc EXCEPT ![p] = EntryPc(req[p])]
             /\ err' = [err EXCEPT ![p] = EntryErr(req[p])]
             /\ UNCHANGED <<resp, cached>>
  /\ UNCHANGED <<dbVars, lockHolder, req, txVars, storeQ, idem, now>>

\* Mutant of StoreIdempotencyRecord: ON CONFLICT (key_hash) DO UPDATE, the
\* last writer replaces the record.
StoreIdempotencyRecordOverwrites(p) ==
  /\ storeQ[p] # NoStore
  /\ idem' = {r \in idem : r.key_hash # storeQ[p].key_hash} \cup {storeQ[p]}
  /\ storeQ' = [storeQ EXCEPT ![p] = NoStore]
  /\ UNCHANGED <<dbVars, lockHolder, pc, req, txVars, err, resp, cached, now>>

\* storeIdempotencyRecord's INSERT ... ON CONFLICT (key_hash) DO NOTHING.
StoreIdempotencyRecord(p) ==
  /\ storeQ[p] # NoStore
  /\ idem' = IF \E r \in idem : r.key_hash = storeQ[p].key_hash
             THEN idem ELSE idem \cup {storeQ[p]}
  /\ storeQ' = [storeQ EXCEPT ![p] = NoStore]
  /\ UNCHANGED <<dbVars, lockHolder, pc, req, txVars, err, resp, cached, now>>

\* Mutant of StoreFails: the store runs inside the request's unit of work,
\* so its failure undoes the request's rows and answers with an error.
StoreFailsUndoes(p) ==
  /\ storeQ[p] # NoStore
  /\ storeQ' = [storeQ EXCEPT ![p] = NoStore]
  /\ log' = {t \in log : t.id \notin {TxId(p, 1), TxId(p, 2)}}
  /\ resp' = [resp EXCEPT ![p] = ErrorResponse("InternalFailure")]
  /\ UNCHANGED <<accounts, accounts0, lockHolder, pc, req, txVars, err, cached, idem, now>>

\* The INSERT rejects: the failure is logged, nothing is stored.
StoreFails(p) ==
  /\ storeQ[p] # NoStore
  /\ storeQ' = [storeQ EXCEPT ![p] = NoStore]
  /\ UNCHANGED <<dbVars, lockHolder, pc, req, txVars, err, resp, cached, idem, now>>

\* Time passes.
Tick ==
  /\ now + TickHours <= MaxTime
  /\ now' = now + TickHours
  /\ UNCHANGED <<dbVars, lockHolder, pc, req, txVars, err, httpVars>>

\* ---------------------------------------------------------- specification
InitialRow(a, b) ==
  [exists |-> TRUE, id |-> a, user_id |-> IF a = 1 THEN "user1" ELSE "user2",
   currency |-> "USD", balance |-> b, version |-> IF b = 0 THEN 0 ELSE 1]

\* The row of the deposit that gave account a its initial balance b.
InitialDeposit(a, b) ==
  [id |-> a, account_id |-> a, type |-> "DEPOSIT", amount |-> b,
   balance_after |-> b, related_transaction_id |-> 0, created_at |-> 0 - 1]

\* Accounts that were created and, when their balance is positive, funded by
\* one deposit; no request has arrived.
Init ==
  /\ \E bal \in [AccountIds -> 0..MaxBalance] :
       /\ accounts = [a \in AccountIds |-> InitialRow(a, bal[a])]
       /\ log = {InitialDeposit(a, bal[a]) : a \in {x \in AccountIds : bal[x] > 0}}
  /\ accounts0 = accounts
  /\ lockHolder = [a \in AccountIds |-> 0]
  /\ pc = [p \in Reqs |-> "idle"]
  /\ req = [p \in Reqs |-> NoReq]
  /\ account = [p \in Reqs |-> NoRow]
  /\ fromAccount = [p \in Reqs |-> NoRow]
  /\ toAccount = [p \in Reqs |-> NoRow]
  /\ lockReqs = [p \in Reqs |-> <<>>]
  /\ wAcc = [p \in Reqs |-> NoWrites]
  /\ wTx = [p \in Reqs |-> {}]
  /\ result = [p \in Reqs |-> <<>>]
  /\ txTimestamp = [p \in Reqs |-> 0]
  /\ err = [p \in Reqs |-> "none"]
  /\ resp = [p \in Reqs |-> NoResp]
  /\ cached = [p \in Reqs |-> FALSE]
  /\ storeQ = [p \in Reqs |-> NoStore]
  /\ idem = {}
  /\ now = 0

SimpleRequests ==
  {[op |-> t, account_id |-> a, from_account_id |-> 0, to_account_id |-> 0,
    amount |-> x, key |-> <<>>] :
     t \in {"DEPOSIT", "WITHDRAWAL"}, a \in AccountIds, x \in Amounts}

TransferRequests ==
  {[op |-> "TRANSFER", account_id |-> 0, from_account_id |-> f, to_account_id |-> t,
    amount |-> x, key |-> <<>>] :
     f \in AccountIds, t \in AccountIds, x \in Amounts}

Started == {p \in Reqs : pc[p] # "idle"}

\* The ledger engine under concurrent requests of any kind on the two
\* accounts, without idempotency keys.
Next ==
  \E p \in Reqs :
    \/ \E r \in SimpleRequests \cup TransferRequests : Start(p, r)
    \/ Begin(p)
    \/ RecordTransaction(p)
    \/ Transfer(p)
    \/ Commit(p)
    \/ Rollback(p)
    \/ Fault(p)
    \/ DeadlockAbort(p)
    \/ Respond(p)

Spec == Init /\ [][Next]_vars

\* Deposits and withdrawals on account 1.
InitSimple == Init /\ accounts[2].balance = 0

NextSimple ==
  \E p \in Reqs :
    \/ \E r \in {x \in SimpleRequests : x.account_id = 1} : Start(p, r)
    \/ Begin(p)
    \/ RecordTransaction(p)
    \/ Commit(p)
    \/ Rollback(p)
    \/ Fault(p)
    \/ Respond(p)

SpecSimple == InitSimple /\ [][NextSimple]_vars

Keys == {<<"k1">>}

\* Requests on account 1 with a key, of the smallest and the largest amount.
KeyedRequests ==
  {[r EXCEPT !.key = k] :
     r \in {x \in SimpleRequests : x.account_id = 1 /\ x.amount \in {1, MaxAmount}},
     k \in Keys}

\* Deposits and withdrawals on account 1 that carry an idempotency key.
NextIdem ==
  \/ \E p \in Reqs :
       \/ \E r \in KeyedRequests : Start(p, r)
       \/ Lookup(p)
       \/ Begin(p)
       \/ RecordTransaction(p)
       \/ Commit(p)
       \/ Rollback(p)
       \/ Respond(p)
       \/ StoreIdempotencyRecord(p)
       \/ StoreFails(p)
  \/ Tick

SpecIdem == InitSimple /\ [][NextIdem]_vars

\* No request has arrived, no record is stored, the clock is at 0.
InitRequests ==
  /\ accounts0 = accounts
  /\ lockHolder = [a \in AccountIds |-> 0]
  /\ pc = [p \in Reqs |-> "idle"]
  /\ req = [p \in Reqs |-> NoReq]
  /\ account = [p \in Reqs |-> NoRow]
  /\ fromAccount = [p \in Reqs |-> NoRow]
  /\ toAccount = [p \in Reqs |-> NoRow]
  /\ lockReqs = [p \in Reqs |-> <<>>]
  /\ wAcc = [p \in Reqs |-> NoWrites]
  /\ wTx = [p \in Reqs |-> {}]
  /\ result = [p \in Reqs |-> <<>>]
  /\ txTimestamp = [p \in Reqs |-> 0]
  /\ err = [p \in Reqs |-> "none"]
  /\ resp = [p \in Reqs |-> NoResp]
  /\ cached = [p \in Reqs |-> FALSE]
  /\ storeQ = [p \in Reqs |-> NoStore]
  /\ idem = {}
  /\ now = 0

\* Accounts of either currency: account 1 in USD, account 2 in USD or INR.
InitCurrencies ==
  /\ \E bal \in [AccountIds -> 0..MaxBalance], cur \in Currencies :
       /\ accounts = [a \in AccountIds |->
                        [InitialRow(a, bal[a]) EXCEPT
                           !.currency = IF a = 1 THEN "USD" ELSE cur]]
       /\ log = {InitialDeposit(a, bal[a]) : a \in {x \in AccountIds : bal[x] > 0}}
  /\ InitRequests

\* Transfers between the two accounts, and deposits to them.
NextCurrencies ==
  \E p \in Reqs :
    \/ \E r \in TransferRequests \cup {x \in SimpleRequests : x.op = "DEPOSIT"} :
         Start(p, r)
    \/ Begin(p)
    \/ RecordTransaction(p)
    \/ Transfer(p)
    \/ Commit(p)
    \/ Rollback(p)
    \/ Fault(p)
    \/ DeadlockAbort(p)
    \/ Respond(p)

SpecCurrencies == InitCurrencies /\ [][NextCurrencies]_vars

\* ------------------------------------------- updateAccountBalance, called
\* A caller's unit of work that calls updateAccountBalance(accountId,
\* newBalance, version) with arguments of its own, on a row it has not
\* locked: the UPDATE waits for the row lock and then compares the version.
UpdateRequests ==
  {[op |-> "UPDATE_BALANCE", account_id |-> a, from_account_id |-> 0,
    to_account_id |-> 0, amount |-> 0, key |-> <<>>,
    new_balance |-> b, version |-> v] :
     a \in AccountIds, b \in (0 - 1)..MaxBalance, v \in 0..MaxVersion}

StartUpdate(p, r) ==
  /\ pc[p] = "idle"
  /\ \A q \in Reqs : q < p => pc[q] # "idle"
  /\ req' = [req EXCEPT ![p] = r]
  /\ pc' = [pc EXCEPT ![p] = "updateBalance"]
  /\ UNCHANGED <<dbVars, lockHolder, txVars, err, httpVars, now>>

UpdateBalanceCall(p) ==
  /\ pc[p] = "updateBalance"
  /\ LET id == req[p].account_id
         r == UpdateAccountBalance(p, id, req[p].new_balance, req[p].version)
     IN /\ accounts[id].exists => LockFree(p, id)
        /\ IF r # "ok"
           THEN Throw(p, r) /\ UNCHANGED <<wAcc, lockHolder>>
           ELSE /\ wAcc' = Written(p, id, req[p].new_balance)
                /\ lockHolder' = [lockHolder EXCEPT ![id] = p]
                /\ pc' = [pc EXCEPT ![p] = "commit"]
                /\ UNCHANGED err
  /\ UNCHANGED <<dbVars, req, account, fromAccount, toAccount, lockReqs, wTx,
                 result, httpVars, txTimestamp, now>>

\* Account 1 exists, account 2 may not.
InitUpdate ==
  /\ \E bal \in [AccountIds -> 0..MaxBalance], two \in BOOLEAN :
       /\ accounts = [a \in AccountIds |->
                        IF a = 1 \/ two THEN InitialRow(a, bal[a]) ELSE NoRow]
       /\ log = {InitialDeposit(a, bal[a]) :
                   a \in {x \in AccountIds : bal[x] > 0 /\ (x = 1 \/ two)}}
  /\ InitRequests

\* One caller and one concurrent caller.
Callers == {1, 2}

NextUpdate ==
  \E p \in Callers :
    \/ \E r \in UpdateRequests : StartUpdate(p, r)
    \/ UpdateBalanceCall(p)
    \/ Commit(p)
    \/ Rollback(p)
    \/ Respond(p)

SpecUpdate == InitUpdate /\ [][NextUpdate]_vars

\* ------------------------------------------------------ POST /api/accounts
Users == {"user1", "user2"}

CreateRequests ==
  {[op |-> "CREATE_ACCOUNT", account_id |-> 0, from_account_id |-> 0,
    to_account_id |-> 0, amount |-> 0, key |-> <<>>,
    user_id |-> u, currency |-> c] : u \in Users, c \in Currencies}

StartCreate(p, r) ==
  /\ pc[p] = "idle"
  /\ \A q \in Reqs : q < p => pc[q] # "idle"
  /\ req' = [req EXCEPT ![p] = r]
  /\ pc' = [pc EXCEPT ![p] = "createAccount"]
  /\ UNCHANGED <<dbVars, lockHolder, txVars, err, httpVars, now>>

\* The row INSERT INTO accounts (user_id, currency, balance, version)
\* VALUES ($1, $2, 0.00, 0) adds, id being the generated identifier.
NewAccount(id, r) ==
  [exists |-> TRUE, id |-> id, user_id |-> r.user_id, currency |-> r.currency,
   balance |-> 0, version |-> 0]

\* UNIQUE(user_id, currency): an account of request r's owner and currency
\* exists.
Duplicate(r) ==
  \E a \in AccountIds :
    /\ accounts[a].exists
    /\ accounts[a].user_id = r.user_id /\ accounts[a].currency = r.currency

\* Mutant of CreateAccount: the accounts table has no UNIQUE(user_id,
\* currency).
CreateAccountNoUnique(p) ==
  /\ pc[p] = "createAccount"
  /\ \E id \in {a \in AccountIds : ~accounts[a].exists} :
       /\ accounts' = [accounts EXCEPT ![id] = NewAccount(id, req[p])]
       /\ account' = [account EXCEPT ![p] = NewAccount(id, req[p])]
  /\ pc' = [pc EXCEPT ![p] = "respondCreate"]
  /\ UNCHANGED <<log, accounts0, lockHolder, req, fromAccount, toAccount, lockReqs,
                 wAcc, wTx, result, err, httpVars, txTimestamp, now>>

\* createAccount: the INSERT, a statement that commits by itself.  It is
\* rejected when the owner has an account of the currency; otherwise the
\* row is added under a fresh identifier and returned.
CreateAccount(p) ==
  /\ pc[p] = "createAccount"
  /\ IF Duplicate(req[p])
     THEN /\ err' = [err EXCEPT ![p] = "UniqueViolation"]
          /\ UNCHANGED <<accounts, account>>
     ELSE /\ \E id \in {a \in AccountIds : ~accounts[a].exists} :
               /\ accounts' = [accounts EXCEPT ![id] = NewAccount(id, req[p])]
               /\ account' = [account EXCEPT ![p] = NewAccount(id, req[p])]
          /\ UNCHANGED err
  /\ pc' = [pc EXCEPT ![p] = "respondCreate"]
  /\ UNCHANGED <<log, accounts0, lockHolder, req, fromAccount, toAccount, lockReqs,
                 wAcc, wTx, result, httpVars, txTimestamp, now>>

\* POST /api/accounts: 201 and the account, or for the violated unique
\* constraint the AppError(409) the route throws.
RespondCreate(p) ==
  /\ pc[p] = "respondCreate"
  /\ resp' = [resp EXCEPT ![p] =
               IF err[p] = "none"
               THEN [status |-> 201, body |-> [error |-> <<>>, rows |-> <<account[p]>>]]
               ELSE [status |-> 409,
                     body |-> [error |-> <<"Account already exists for this user and currency">>,
                               rows |-> <<>>]]]
  /\ pc' = [pc EXCEPT ![p] = "done"]
  /\ UNCHANGED <<dbVars, lockHolder, req, txVars, err, cached, storeQ, idem, now>>

\* An empty accounts table.
InitCreate ==
  /\ accounts = [a \in AccountIds |-> NoRow]
  /\ log = {}
  /\ InitRequests

NextCreate ==
  \E p \in Reqs :
    \/ \E r \in CreateRequests : StartCreate(p, r)
    \/ CreateAccount(p)
    \/ RespondCreate(p)

SpecCreate == InitCreate /\ [][NextCreate]_vars

\* ------------------------------------------- GET /:accountId/history
\* Bounds of the history runs: rows in the transactions table, and the
\* values of created_at.
MaxRows == 3
MaxStamp == 2

\* getTransactionHistory: page || 1, Math.min(limit || 20, 100).
DefaultPage == 1
DefaultLimit == 20
MaxLimit == 100

\* An optional number is <<>> (absent) or <<n>>.
PageInputs == {<<>>} \cup {<<n>> : n \in (0 - 1)..2}
LimitInputs == {<<>>} \cup {<<n>> : n \in {0 - 1, 0, 1, 2, MaxLimit, MaxLimit + 1}}

\* A history query: through the route (direct = FALSE: page and limit are
\* query strings) or as a call of getTransactionHistory (direct = TRUE).
HistoryRequests ==
  {[op |-> "HISTORY", account_id |-> a, from_account_id |-> 0,
    to_account_id |-> 0, amount |-> 0, key |-> <<>>,
    page |-> pg, limit |-> lm, direct |-> d] :
     a \in AccountIds, pg \in PageInputs, lm \in LimitInputs, d \in BOOLEAN}

\* route: req.query.x ? parseInt(req.query.x, 10) : d
QueryInt(q, d) == IF q = <<>> THEN d ELSE q[1]

\* x || d on an optional number: undefined and 0 are falsy.
OrDefault(x, d) == IF x = <<>> \/ x = <<0>> THEN d ELSE x[1]

\* The queryParams getTransactionHistory is called with.
QueryParams(r) ==
  IF r.direct THEN [page |-> r.page, limit |-> r.limit]
  ELSE [page |-> <<QueryInt(r.page, DefaultPage)>>,
        limit |-> <<QueryInt(r.limit, DefaultLimit)>>]

\* route: if (page < 1 || limit < 1) throw new AppError(400, ...)
RouteRejects(r) ==
  /\ ~r.direct
  /\ QueryInt(r.page, DefaultPage) < 1 \/ QueryInt(r.limit, DefaultLimit) < 1

HistoryPage(r) == OrDefault(QueryParams(r).page, DefaultPage)
HistoryLimit(r) ==
  LET l == OrDefault(QueryParams(r).limit, DefaultLimit)
  IN IF l < MaxLimit THEN l ELSE MaxLimit
HistoryOffset(r) == (HistoryPage(r) - 1) * HistoryLimit(r)

\* WHERE account_id = $1, on the committed table (the statements run on the
\* pool, each in its own snapshot).
RowsOf(accountId) == {t \in log : t.account_id = accountId}

\* SELECT COUNT(*) as total
CountRows(accountId) == Cardinality(RowsOf(accountId))

\* ORDER BY created_at ASC (not the program's order).
OrderedAsc(S) ==
  {s \in [1..Cardinality(S) -> S] :
     /\ \A i, j \in DOMAIN s : i # j => s[i] # s[j]
     /\ \A i, j \in DOMAIN s : i < j => s[i].created_at <= s[j].created_at}

\* ORDER BY created_at DESC: the orders the database may return the rows
\* of S in (rows of equal created_at come in any order).
OrderedDesc(S) ==
  {s \in [1..Cardinality(S) -> S] :
     /\ \A i, j \in DOMAIN s : i # j => s[i] # s[j]
     /\ \A i, j \in DOMAIN s : i < j => s[i].created_at >= s[j].created_at}

\* LIMIT limit OFFSET offset of the ordered rows s.
LimitOffset(s, limit, offset) ==
  [i \in 1..(IF Len(s) - offset < limit
             THEN (IF Len(s) - offset < 0 THEN 0 ELSE Len(s) - offset)
             ELSE limit) |-> s[offset + i]]

\* Math.ceil(total / limit), limit > 0
Ceil(total, limit) == (total + limit - 1) \div limit

StartHistory(p, r) ==
  /\ pc[p] = "idle"
  /\ \A q \in Reqs : q < p => pc[q] # "idle"
  /\ req' = [req EXCEPT ![p] = r]
  /\ pc' = [pc EXCEPT ![p] = IF RouteRejects(r) THEN "respondHistory"
                              ELSE "historyCount"]
  /\ err' = [err EXCEPT ![p] = IF RouteRejects(r) THEN "BadRequest" ELSE "none"]
  /\ UNCHANGED <<dbVars, lockHolder, txVars, httpVars, now>>

\* The first query: total = parseInt(countResult.rows[0].total, 10).
HistoryCount(p) ==
  /\ pc[p] = "historyCount"
  /\ result' = [result EXCEPT ![p] = <<[total |-> CountRows(req[p].account_id)]>>]
  /\ pc' = [pc EXCEPT ![p] = "historySelect"]
  /\ UNCHANGED <<dbVars, lockHolder, req, account, fromAccount, toAccount,
                 lockReqs, wAcc, wTx, err, httpVars, txTimestamp, now>>

\* The second query and the return value.  The database refuses a negative
\* LIMIT or OFFSET.
HistorySelect(p) ==
  /\ pc[p] = "historySelect"
  /\ LET r == req[p]
         total == result[p][1].total
     IN IF HistoryLimit(r) < 0 \/ HistoryOffset(r) < 0
        THEN /\ err' = [err EXCEPT ![p] = "DatabaseError"]
             /\ result' = [result EXCEPT ![p] = <<>>]
        ELSE /\ \E s \in OrderedDesc(RowsOf(r.account_id)) :
                  result' = [result EXCEPT ![p] =
                     <<[data |-> LimitOffset(s, HistoryLimit(r), HistoryOffset(r)),
                        page |-> HistoryPage(r), limit |-> HistoryLimit(r),
                        total |-> total,
                        total_pages |-> Ceil(total, HistoryLimit(r))]>>]
             /\ UNCHANGED err
  /\ pc' = [pc EXCEPT ![p] = IF req[p].direct THEN "done" ELSE "respondHistory"]
  /\ UNCHANGED <<dbVars, lockHolder, req, account, fromAccount, toAccount,
                 lockReqs, wAcc, wTx, httpVars, txTimestamp, now>>

\* route: res.json(history), or the error handler's response.
RespondHistory(p) ==
  /\ pc[p] = "respondHistory"
  /\ resp' = [resp EXCEPT ![p] =
                IF err[p] = "none" THEN [status |-> 200, body |-> result[p][1]]
                ELSE IF err[p] = "BadRequest"
                THEN [status |-> 400,
                      body |-> [error |-> <<"Page and limit must be positive integers">>]]
                ELSE [status |-> 500, body |-> [error |-> <<"Internal server error">>]]]
  /\ pc' = [pc EXCEPT ![p] = "done"]
  /\ UNCHANGED <<dbVars, lockHolder, req, txVars, err, cached, storeQ, idem, now>>

\* Another session's deposit of 1 to account a commits.  created_at is
\* CURRENT_TIMESTAMP, the time its unit of work began: t.  Its row has an
\* identifier that no request of the model generates.
DepositCommitted(a, t) ==
  /\ Cardinality(log) < MaxRows
  /\ accounts' = [accounts EXCEPT ![a].balance = @ + 1, ![a].version = @ + 1]
  /\ log' = log \cup {[id |-> TxId(NumReqs, 2) + 1 + Cardinality(log), account_id |-> a,
                       type |-> "DEPOSIT", amount |-> 1,
                       balance_after |-> accounts[a].balance + 1,
                       related_transaction_id |-> 0, created_at |-> t]}
  /\ UNCHANGED <<accounts0, lockHolder, pc, req, txVars, err, httpVars, now>>

\* Two empty accounts.
InitHistory ==
  /\ accounts = [a \in AccountIds |-> InitialRow(a, 0)]
  /\ log = {}
  /\ InitRequests

\* One reader, while deposits commit.
Readers == {1}

NextHistory ==
  \/ \E a \in AccountIds, t \in 1..MaxStamp : DepositCommitted(a, t)
  \/ \E p \in Readers :
       \/ \E r \in HistoryRequests : StartHistory(p, r)
       \/ HistoryCount(p)
       \/ HistorySelect(p)
       \/ RespondHistory(p)

SpecHistory == InitHistory /\ [][NextHistory]_vars

\* ------------------------------------------- GET /:accountId/balance
BalanceRequests ==
  {[op |-> "BALANCE", account_id |-> a, from_account_id |-> 0,
    to_account_id |-> 0, amount |-> 0, key |-> <<>>] : a \in AccountIds}

StartBalance(p, r) ==
  /\ pc[p] = "idle"
  /\ \A q \in Reqs : q < p => pc[q] # "idle"
  /\ req' = [req EXCEPT ![p] = r]
  /\ pc' = [pc EXCEPT ![p] = "getBalance"]
  /\ UNCHANGED <<dbVars, lockHolder, txVars, err, httpVars, now>>

\* Mutant of GetAccountById: the SELECT returns the row as the unit of work
\* that is writing it sees it.
GetAccountByIdDirty(accountId) ==
  IF \E q \in Reqs : wAcc[q][accountId].written
  THEN ViewAccount(CHOOSE q \in Reqs : wAcc[q][accountId].written, accountId)
  ELSE accounts[accountId]

\* getAccountById: SELECT ... FROM accounts WHERE id = $1 on the pool, with
\* no FOR UPDATE: the committed row (NoRow: null), whoever holds its lock.
GetAccountById(accountId) == accounts[accountId]

\* getBalance: throws 'Account not found' or returns account.balance.
GetBalance(p) ==
  /\ pc[p] = "getBalance"
  /\ LET row == GetAccountById(req[p].account_id)
     IN IF ~row.exists
        THEN /\ err' = [err EXCEPT ![p] = "AccountNotFound"]
             /\ UNCHANGED result
        ELSE /\ result' = [result EXCEPT ![p] =
                             <<[account_id |-> row.id, balance |-> row.balance]>>]
             /\ UNCHANGED err
  /\ pc' = [pc EXCEPT ![p] = "respondBalance"]
  /\ UNCHANGED <<dbVars, lockHolder, req, account, fromAccount, toAccount,
                 lockReqs, wAcc, wTx, httpVars, txTimestamp, now>>

\* route: res.json({account_id, balance}); a message that includes
\* 'not found' is rethrown as AppError(404, message).
RespondBalance(p) ==
  /\ pc[p] = "respondBalance"
  /\ resp' = [resp EXCEPT ![p] =
                IF err[p] = "none" THEN [status |-> 200, body |-> result[p][1]]
                ELSE IF Includes(Message(err[p]), "not found")
                THEN [status |-> 404, body |-> [error |-> Message(err[p])]]
                ELSE ErrorResponse(err[p])]
  /\ pc' = [pc EXCEPT ![p] = "done"]
  /\ UNCHANGED <<dbVars, lockHolder, req, txVars, err, cached, storeQ, idem, now>>

\* Deposits and withdrawals on the accounts, and balance reads of them;
\* account 2 may not exist (InitUpdate).  Two clients at a time.
Clients == {1, 2}

NextBalance ==
  \E p \in Clients :
    \/ \E r \in SimpleRequests : Start(p, r)
    \/ \E r \in BalanceRequests : StartBalance(p, r)
    \/ Begin(p)
    \/ RecordTransaction(p)
    \/ Commit(p)
    \/ Rollback(p)
    \/ Fault(p)
    \/ Respond(p)
    \/ GetBalance(p)
    \/ RespondBalance(p)

SpecBalance == InitUpdate /\ [][NextBalance]_vars

\* ------------------------------------------------------- fair scheduling
\* The steps of request p that happen by themselves once they can: the
\* continuation of an awaited query runs when the query resolves, the
\* database runs a statement that waits for no lock, and its deadlock
\* detector ends a wait on a cycle.  Arrivals and storage faults are not
\* owed to anyone.
Scheduled(p) ==
  \/ Begin(p)
  \/ RecordTransaction(p)
  \/ Transfer(p)
  \/ Commit(p)
  \/ Rollback(p)
  \/ DeadlockAbort(p)
  \/ Respond(p)

SpecFair == Init /\ [][Next]_vars /\ \A p \in Reqs : WF_vars(Scheduled(p))

\* ------------------------------------------- transaction(): failing ROLLBACK
\* client.query('ROLLBACK') rejects in the catch block: its error leaves the
\* helper in place of the callback's, after finally has run client.release().
\* The session either has ended (the server discards its writes and locks)
\* or is still in its transaction, idle in the pool, with the writes
\* pending and the row locks held.
RollbackFails(p, ended) ==
  /\ pc[p] = "rollback"
  /\ wAcc' = IF ended THEN [wAcc EXCEPT ![p] = NoWrites] ELSE wAcc
  /\ wTx' = IF ended THEN [wTx EXCEPT ![p] = {}] ELSE wTx
  /\ lockHolder' = IF ended THEN ReleaseLocks(p) ELSE lockHolder
  /\ result' = [result EXCEPT ![p] = <<>>]
  /\ err' = [err EXCEPT ![p] = "InternalFailure"]
  /\ Return(p)
  /\ pc' = [pc EXCEPT ![p] = "respond"]
  /\ UNCHANGED <<dbVars, req, httpVars, now>>

\* The pool closes a client that stayed idle for idleTimeoutMillis: the
\* server ends its session and with it the transaction left open.
IdleClose(p) ==
  /\ pc[p] \in {"respond", "done"}
  /\ \E a \in AccountIds : lockHolder[a] = p
  /\ wAcc' = [wAcc EXCEPT ![p] = NoWrites]
  /\ wTx' = [wTx EXCEPT ![p] = {}]
  /\ lockHolder' = ReleaseLocks(p)
  /\ UNCHANGED <<dbVars, pc, req, account, fromAccount, toAccount, lockReqs,
                 result, err, httpVars, txTimestamp, now>>

\* Deposits and withdrawals of two clients, with statements, COMMIT and
\* ROLLBACK that may fail.
NextHelper ==
  \E p \in Clients :
    \/ \E r \in SimpleRequests : Start(p, r)
    \/ Begin(p)
    \/ RecordTransaction(p)
    \/ Commit(p)
    \/ Rollback(p)
    \/ \E ended \in BOOLEAN : RollbackFails(p, ended)
    \/ IdleClose(p)
    \/ Fault(p)
    \/ Respond(p)

SpecHelper == Init /\ [][NextHelper]_vars

\* ------------------------------------------- requests naming absent accounts
\* Account 1 is a USD account; account 2 is a USD account, an INR account,
\* or does not exist.
InitChecks ==
  /\ \E bal \in [AccountIds -> 0..MaxBalance], two \in Currencies \cup {"absent"} :
       /\ two = "absent" => bal[2] = 0
       /\ accounts = [a \in AccountIds |->
                        IF a = 1 THEN InitialRow(a, bal[a])
                        ELSE IF two = "absent" THEN NoRow
                        ELSE [InitialRow(a, bal[a]) EXCEPT !.currency = two]]
       /\ log = {InitialDeposit(a, bal[a]) :
                   a \in {x \in AccountIds : bal[x] > 0}}
  /\ InitRequests

\* Deposits, withdrawals and transfers of two clients.
NextChecks ==
  \E p \in Clients :
    \/ \E r \in SimpleRequests \cup TransferRequests : Start(p, r)
    \/ Begin(p)
    \/ RecordTransaction(p)
    \/ Transfer(p)
    \/ Commit(p)
    \/ Rollback(p)
    \/ Fault(p)
    \/ DeadlockAbort(p)
    \/ Respond(p)

SpecChecks == InitChecks /\ [][NextChecks]_vars

\* ------------------------------------------- created_at and the lock order
\* The clock moves on between two statements.
Advance ==
  /\ now < MaxStamp
  /\ now' = now + 1
  /\ UNCHANGED <<dbVars, lockHolder, pc, req, txVars, err, httpVars>>

\* Deposits and withdrawals of two clients on account 1, while time passes:
\* a row's created_at is the time its unit of work began, whenever it got
\* the lock.
NextOrder ==
  \/ Advance
  \/ \E p \in Clients :
       \/ \E r \in {x \in SimpleRequests : x.account_id = 1} : Start(p, r)
       \/ Begin(p)
       \/ RecordTransaction(p)
       \/ Commit(p)
       \/ Rollback(p)
       \/ Respond(p)

SpecOrder == InitSimple /\ [][NextOrder]_vars

\* Another client's deposit of 1 to account 1 commits while no request of
\* the model holds the row's lock.
OtherDeposit == lockHolder[1] = 0 /\ DepositCommitted(1, now)

\* Two clients' keyed deposits and withdrawals on account 1, storage faults,
\* and another client's deposits in between.
NextReplay ==
  \/ \E p \in Clients :
       \/ \E r \in KeyedRequests : Start(p, r)
       \/ Lookup(p)
       \/ Begin(p)
       \/ RecordTransaction(p)
       \/ Commit(p)
       \/ Rollback(p)
       \/ Fault(p)
       \/ Respond(p)
       \/ StoreIdempotencyRecord(p)
       \/ StoreFails(p)
  \/ OtherDeposit

SpecReplay == InitSimple /\ [][NextReplay]_vars

\* Requests as idempotencyMiddleware sees them: req.method, req.path and the
\* Idempotency-Key header, each a string of characters.  A path starts with
\* "/" and may hold ":", which is a legal character of a URL path; the key
\* is whatever the client sends.
MaxPathLen == 3
MaxKeyLen == 2
PathChars == {"/", "a", ":"}
KeyChars == {"a", ":"}
Strings(chars, n) == UNION {[1..k -> chars] : k \in 1..n}
Methods == {<<"GET">>, <<"POST">>}
Paths == {s \in Strings(PathChars, MaxPathLen) : s[1] = "/"}
IdempotencyKeys == Strings(KeyChars, MaxKeyLen)
IdempotentRequests ==
  [method : Methods, path : Paths, idempotencyKey : IdempotencyKeys,
   idempotencyKeyHash : {<<>>}]

\* idempotencyMiddleware, the key hash of request p: computed from the
\* method, the path and the key, and kept on the request for the lookup.
AssignKeyHash(p) ==
  /\ pc[p] = "hash"
  /\ req' = [req EXCEPT ![p].idempotencyKeyHash =
               GenerateIdempotencyKeyHash(req[p].method, req[p].path,
                                          req[p].idempotencyKey)]
  /\ pc' = [pc EXCEPT ![p] = "lookup"]
  /\ UNCHANGED <<dbVars, lockHolder, txVars, err, httpVars, now>>

\* Two requests with a key have reached the middleware.
InitHash ==
  /\ accounts = [a \in AccountIds |-> InitialRow(a, 0)]
  /\ log = {}
  /\ accounts0 = accounts
  /\ lockHolder = [a \in AccountIds |-> 0]
  /\ pc = [p \in Reqs |-> IF p \in Clients THEN "hash" ELSE "idle"]
  /\ \E rs \in [Clients -> IdempotentRequests] :
       req = [p \in Reqs |-> IF p \in Clients THEN rs[p] ELSE NoReq]
  /\ account = [p \in Reqs |-> NoRow]
  /\ fromAccount = [p \in Reqs |-> NoRow]
  /\ toAccount = [p \in Reqs |-> NoRow]
  /\ lockReqs = [p \in Reqs |-> <<>>]
  /\ wAcc = [p \in Reqs |-> NoWrites]
  /\ wTx = [p \in Reqs |-> {}]
  /\ result = [p \in Reqs |-> <<>>]
  /\ txTimestamp = [p \in Reqs |-> 0]
  /\ err = [p \in Reqs |-> "none"]
  /\ resp = [p \in Reqs |-> NoResp]
  /\ cached = [p \in Reqs |-> FALSE]
  /\ storeQ = [p \in Reqs |-> NoStore]
  /\ idem = {}
  /\ now = 0

NextHash == \E p \in Clients : AssignKeyHash(p)

SpecHash == InitHash /\ [][NextHash]_vars

\* ================================================================== claims
RECURSIVE SumOver(_, _)
\* The sum of f[x] over the finite set S.
SumOver(S, f) ==
  IF S = {} THEN 0
  ELSE LET x == CHOOSE y \in S : TRUE IN f[x] + SumOver(S \ {x}, f)

\* Request p's unit of work has committed.
Committed(p) ==
  /\ pc[p] \in {"respond", "done"}
  /\ req[p].op # "none"
  /\ err[p] = "none"
  /\ ~cached[p]

\* Request p has finished with an error of its own service call.
Failed(p) == pc[p] \in {"respond", "done"} /\ err[p] # "none"

\* The change of account a's balance that request p asks for.
Effect(p, a) ==
  IF req[p].op = "DEPOSIT" /\ req[p].account_id = a THEN req[p].amount
  ELSE IF req[p].op = "WITHDRAWAL" /\ req[p].account_id = a THEN 0 - req[p].amount
  ELSE IF req[p].op = "TRANSFER" /\ req[p].from_account_id = a THEN 0 - req[p].amount
  ELSE IF req[p].op = "TRANSFER" /\ req[p].to_account_id = a THEN req[p].amount
  ELSE 0

\* C1: in every reachable committed state, after any interleaving of
\* deposits, withdrawals and transfers, every account's balance is >= 0.
C1_BalanceNonNegative == \A a \in AccountIds : accounts[a].balance >= 0

\* A withdrawal has emptied an account and another withdrawal from an
\* account was refused for insufficient funds.
C1_Witness ==
  \E p, q \in Reqs :
    /\ Committed(p) /\ req[p].op = "WITHDRAWAL"
    /\ accounts[req[p].account_id].balance = 0
    /\ pc[q] = "done" /\ req[q].op = "WITHDRAWAL" /\ err[q] = "InsufficientFunds"

\* The accounts request p's unit of work has updated.
UpdatedBy(p) == {a \in AccountIds : wAcc[p][a].written}

\* Money that entered or left the ledger: the committed deposits minus the
\* committed withdrawals.
ExternalNet ==
  SumOver({p \in Reqs : Committed(p) /\ req[p].op \in {"DEPOSIT", "WITHDRAWAL"}},
          [p \in Reqs |-> Effect(p, req[p].account_id)])

TotalBalance(accts) == SumOver(AccountIds, [a \in AccountIds |-> accts[a].balance])

\* C4: conservation.  Transfers, succeeding or failing, in any interleaving,
\* leave the sum of the two accounts' balances unchanged: the sum differs
\* from its initial value only by the committed deposits and withdrawals,
\* and the two balance updates of a transfer, as its own unit of work sees
\* them, add up to the sum it found.
C4_Conservation ==
  /\ TotalBalance(accounts) = TotalBalance(accounts0) + ExternalNet
  /\ \A p \in Reqs :
       (req[p].op = "TRANSFER"
          /\ UpdatedBy(p) = {req[p].from_account_id, req[p].to_account_id})
       => TotalBalance([a \in AccountIds |-> ViewAccount(p, a)])
            = TotalBalance(accounts)

\* Two transfers between the two accounts have finished: one was stopped
\* after its debit, before its credit; the other after both balance updates.
C4_Witness ==
  \E p, q \in Reqs :
    /\ p # q
    /\ pc[p] = "done" /\ req[p].op = "TRANSFER" /\ err[p] = "InternalFailure"
    /\ pc[q] = "done" /\ req[q].op = "TRANSFER" /\ err[q] = "ForeignKeyViolation"

\* The errors a transfer reports for a request that does not meet its
\* preconditions, and the faults of its environment.
PreconditionErrors == {"SameAccount", "FromAccountNotFound", "ToAccountNotFound",
                       "CurrencyMismatch", "InsufficientFunds"}
EnvironmentErrors == {"InternalFailure", "DeadlockDetected"}

\* C5 (as claimed): a transfer with from # to, both accounts existing, equal
\* currencies and balance(from) >= amount commits: no finished transfer that
\* met its preconditions (and no storage fault or deadlock) ends with an
\* error, in particular not with a constraint violation of the transactions
\* table.
C5_ValidTransferCommits ==
  \A p \in Reqs :
    (req[p].op = "TRANSFER" /\ pc[p] \in {"respond", "done"}
       /\ err[p] \notin PreconditionErrors \cup EnvironmentErrors)
    => err[p] = "none"

C7_NoMutualWait ==
  \A p, q \in Reqs :
    ~(p # q /\ req[p].op = "TRANSFER" /\ req[q].op = "TRANSFER"
        /\ WaitsOn(p) = q /\ WaitsOn(q) = p)

\* C8 (as claimed): a transfer requests its two locks in ascending order of
\* account identifier, whichever is the source.
C8_CanonicalLockOrder ==
  \A p \in Reqs :
    (req[p].op = "TRANSFER" /\ Len(lockReqs[p]) = 2)
    => lockReqs[p][1] < lockReqs[p][2]

\* The write set of request p's unit of work is that of one whole operation:
\* a deposit or withdrawal's balance update and its row, or a transfer's
\* two balance updates and two rows.
WholeOperation(p) ==
  IF req[p].op = "TRANSFER"
  THEN /\ UpdatedBy(p) = {req[p].from_account_id, req[p].to_account_id}
       /\ Cardinality(wTx[p]) = 2
       /\ \E d, c \in wTx[p] :
            /\ d.account_id = req[p].from_account_id
            /\ d.balance_after = wAcc[p][d.account_id].balance
            /\ c.account_id = req[p].to_account_id
            /\ c.balance_after = wAcc[p][c.account_id].balance
  ELSE /\ UpdatedBy(p) = {req[p].account_id}
       /\ \E t \in wTx[p] :
            /\ wTx[p] = {t}
            /\ t.account_id = req[p].account_id
            /\ t.balance_after = wAcc[p][t.account_id].balance

\* C9: all-or-nothing.  The committed accounts and transaction rows change
\* only in the commit step of one request, which makes the whole write set
\* of its operation visible at once; a request that ends with an error
\* changes nothing, whatever it had written before it failed.
C9_AllOrNothing ==
  [][(accounts' # accounts \/ log' # log) =>
       \E p \in Reqs :
         /\ pc[p] = "commit" /\ pc'[p] = "respond" /\ err'[p] = "none"
         /\ WholeOperation(p)
         /\ accounts' = [a \in AccountIds |-> ViewAccount(p, a)]
         /\ log' = log \cup wTx[p]]_vars

\* A deposit has committed, and a transfer that had updated both balances
\* and then failed has been rolled back.
C9_Witness ==
  \E p, q \in Reqs :
    /\ Committed(p) /\ req[p].op = "DEPOSIT"
    /\ \E t \in log : t.id = TxId(p, 1)
    /\ pc[q] = "done" /\ req[q].op = "TRANSFER" /\ err[q] = "ForeignKeyViolation"
    /\ accounts[req[q].to_account_id].balance
         = accounts0[req[q].to_account_id].balance + Effect(p, req[q].to_account_id)

Min(a, b) == IF a < b THEN a ELSE b

\* Every request that has arrived has been answered.
AllDone == Started # {} /\ \A p \in Started : pc[p] = "done"

Succeeded == {p \in Started : Committed(p)}

\* The requests so far are withdrawals of one amount from account 1, and
\* none of them met a storage fault.
OnlyWithdrawals ==
  \A p \in Started :
    /\ req[p].op = "WITHDRAWAL" /\ req[p].account_id = 1
    /\ req[p].amount = req[1].amount
    /\ err[p] # "InternalFailure"

\* C2: N concurrent withdrawals of amount A from an account with initial
\* balance B, and nothing else: under every interleaving exactly
\* min(N, floor(B / A)) of them succeed, every other one fails with
\* InsufficientFunds, and the final balance is B - successes * A.
C2_ConcurrentWithdrawals ==
  (AllDone /\ OnlyWithdrawals) =>
    /\ Cardinality(Succeeded)
         = Min(Cardinality(Started), accounts0[1].balance \div req[1].amount)
    /\ \A p \in Started \ Succeeded : err[p] = "InsufficientFunds"
    /\ accounts[1].balance
         = accounts0[1].balance - Cardinality(Succeeded) * req[1].amount

\* Every request was a withdrawal of 1 from a balance of 1, all have
\* finished, and one of them succeeded.
C2_Witness ==
  /\ AllDone /\ OnlyWithdrawals
  /\ Cardinality(Started) = NumReqs /\ Cardinality(Succeeded) = 1
  /\ accounts0[1].balance = 1 /\ req[1].amount = 1

\* C3: no lost updates.  Whatever the interleaving of the deposits and
\* withdrawals on an account, its balance is the initial balance plus the
\* successful deposits minus the successful withdrawals (in particular once
\* all of them have finished).
C3_NoLostUpdate ==
  \A a \in AccountIds :
    accounts[a].balance
      = accounts0[a].balance
          + SumOver(Succeeded, [p \in Reqs |-> Effect(p, a)])

\* All requests on account 1 have finished, a deposit and a withdrawal of
\* different amounts among the successful ones.
C3_Witness ==
  /\ AllDone /\ Cardinality(Started) = NumReqs
  /\ \E p, q \in Started :
       /\ Committed(p) /\ req[p].op = "DEPOSIT"
       /\ Committed(q) /\ req[q].op = "WITHDRAWAL"
       /\ req[p].amount # req[q].amount
       /\ accounts[1].balance # accounts0[1].balance

\* The unexpired record of request p's key hash, if any.
ValidRecords(p) ==
  {r \in idem : r.key_hash = KeyHash(req[p]) /\ r.expires_at > now}

\* C10: once the record of a request with an idempotency key is stored,
\* every later request with the same method, path and key that looks it up
\* before it expires is answered with the stored status and body (the body
\* of the first response, with its generated transaction id), and that step
\* changes no balance and appends no transaction row; the record itself is
\* the response of a request that was executed, and is never changed.
C10_Replay ==
  /\ [](\A r \in idem :
         \E q \in Reqs :
           /\ pc[q] = "done" /\ ~cached[q] /\ KeyHash(req[q]) = r.key_hash
           /\ resp[q] = [status |-> r.response_status, body |-> r.response_body])
  /\ [](\A p \in Reqs :
         cached[p] => /\ pc[p] = "done"
                      /\ \A t \in log : t.id \notin {TxId(p, 1), TxId(p, 2)})
  /\ [][/\ idem \subseteq idem'
        /\ \A p \in Reqs :
             (pc[p] = "lookup" /\ pc'[p] # "lookup" /\ ValidRecords(p) # {}) =>
               /\ cached'[p]
               /\ \E r \in ValidRecords(p) :
                    resp'[p] = [status |-> r.response_status, body |-> r.response_body]
               /\ accounts' = accounts /\ log' = log]_vars

\* A withdrawal with a key succeeded, and a later request with the same key
\* was answered from its record: same status, same transaction id, and the
\* balance was debited once.
C10_Witness ==
  \E p, q \in Reqs :
    /\ p # q
    /\ Committed(p) /\ pc[p] = "done" /\ req[p].op = "WITHDRAWAL"
    /\ cached[q]
    /\ resp[q] = resp[p]
    /\ resp[q].status = 201 /\ resp[q].body.rows[1].id = TxId(p, 1)
    /\ accounts[1].balance = accounts0[1].balance - req[p].amount

\* Request p's storeIdempotencyRecord has not run yet: p has not responded,
\* or its INSERT is still pending.
StoreNotRun(p) == pc[p] = "respond" \/ storeQ[p] # NoStore

\* C11 (as claimed): requests with the same idempotency key, method and path
\* apply the ledger mutation at most once, also when the duplicate arrives
\* before the first request's record is stored: no two of them have both
\* committed their own unit of work while neither record has been stored.
C11_AtMostOnce ==
  \A p, q \in Reqs :
    (p # q /\ req[p].key # <<>> /\ KeyHash(req[p]) = KeyHash(req[q]))
    => ~(Committed(p) /\ Committed(q) /\ StoreNotRun(p) /\ StoreNotRun(q))

\* Request p is a transfer between two accounts of different currencies.
MismatchedTransfer(p) ==
  /\ req[p].op = "TRANSFER"
  /\ req[p].from_account_id # req[p].to_account_id
  /\ accounts[req[p].from_account_id].currency
       # accounts[req[p].to_account_id].currency

Source(p) ==
  IF req[p].op = "TRANSFER" THEN req[p].from_account_id ELSE req[p].account_id

\* Request p is the only request so far, a withdrawal or a transfer between
\* two accounts, and has finished without a storage fault.
SoleDebit(p) ==
  /\ Started = {p}
  /\ pc[p] \in {"respond", "done"}
  /\ req[p].op \in {"WITHDRAWAL", "TRANSFER"}
  /\ ~SameAccount(req[p])
  /\ err[p] \notin EnvironmentErrors

\* The part of C13 about amounts that exceed the balance: the operation
\* fails with InsufficientFunds and balances, versions and log are as before.
OverdraftRefused ==
  \A p \in Reqs :
    (SoleDebit(p) /\ req[p].amount > accounts0[Source(p)].balance)
    => /\ err[p] = "InsufficientFunds"
       /\ accounts = accounts0
       /\ \A t \in log : t.id \in AccountIds

\* C13 (as claimed): a withdrawal, or a transfer from a source account, of
\* more than the balance fails with InsufficientFunds and writes nothing;
\* of exactly the balance it is accepted and leaves the balance at 0.
C13_Overdraft ==
  /\ OverdraftRefused
  /\ \A p \in Reqs :
       (SoleDebit(p) /\ req[p].amount = accounts0[Source(p)].balance)
       => /\ err[p] = "none"
          /\ accounts[Source(p)].balance = 0

\* C14: when a deposit (withdrawal) of x on an account with balance b
\* succeeds, its commit sets the balance to b + x (b - x) and appends exactly
\* one row, of type DEPOSIT (WITHDRAWAL), for that account, with amount x and
\* balance_after the new balance; no other account and no other row changes.
C14_RecordTransactionEffect ==
  [][\A p \in Reqs :
       (pc[p] = "commit" /\ pc'[p] = "respond"
          /\ req[p].op \in {"DEPOSIT", "WITHDRAWAL"})
       => LET a == req[p].account_id
              b == accounts[a].balance
              x == req[p].amount
              nb == IF req[p].op = "DEPOSIT" THEN b + x ELSE b - x
          IN /\ accounts'[a].balance = nb
             /\ \A o \in AccountIds \ {a} : accounts'[o] = accounts[o]
             /\ \E t \in log' \ log :
                  /\ log' = log \cup {t}
                  /\ t.account_id = a /\ t.type = req[p].op
                  /\ t.amount = x /\ t.balance_after = nb
                  /\ t.related_transaction_id = 0]_vars

\* A deposit of 2 and then a withdrawal of 1 have committed on account 1:
\* each left its row, with the balance it produced.
C14_Witness ==
  \E p, q \in Reqs :
    /\ Committed(p) /\ req[p].op = "DEPOSIT" /\ req[p].amount = 2
    /\ Committed(q) /\ req[q].op = "WITHDRAWAL" /\ req[q].amount = 1
    /\ accounts[1].balance = accounts0[1].balance + 1
    /\ \E t, u \in log :
         /\ t.id = TxId(p, 1) /\ t.type = "DEPOSIT"
         /\ t.balance_after = accounts0[1].balance + 2
         /\ u.id = TxId(q, 1) /\ u.type = "WITHDRAWAL"
         /\ u.balance_after = accounts[1].balance

\* C15: of any number of stores with the same key hash exactly one inserts:
\* the table never holds two records of one hash, a record is inserted only
\* by a store that finds no record of its hash, as that store's status and
\* body, and no later store changes or removes a record.
C15_FirstWriterWins ==
  /\ [](\A r, t \in idem : r.key_hash = t.key_hash => r = t)
  /\ [][/\ \A r \in idem : r \in idem'
        /\ idem' # idem =>
             \E p \in Reqs :
               /\ storeQ[p] # NoStore /\ storeQ'[p] = NoStore
               /\ \A r \in idem : r.key_hash # storeQ[p].key_hash
               /\ idem' = idem \cup {storeQ[p]}]_vars

\* Two requests with the same key were both executed and answered
\* differently, both stores have run, and the one record is the response of
\* the request that arrived second: its store was the first to insert.
C15_Witness ==
  \E r \in idem :
    /\ idem = {r}
    /\ \A p \in {1, 2} : pc[p] = "done" /\ ~cached[p] /\ storeQ[p] = NoStore
    /\ KeyHash(req[1]) = r.key_hash /\ KeyHash(req[2]) = r.key_hash
    /\ resp[1] # resp[2]
    /\ resp[2] = [status |-> r.response_status, body |-> r.response_body]

\* A record of request p's key hash exists and expires later than now.
Live(p) ==
  \E r \in idem : r.key_hash = KeyHash(req[p]) /\ now < r.expires_at

\* C16: the lookup answers with the cached status and body exactly when a
\* record of the key hash exists whose expiry time is later than the current
\* time; otherwise, expired or never stored alike, it is the same miss: the
\* request goes on to its handler and nothing else changes.
C16_LookupExpiry ==
  [][\A p \in Reqs :
       (pc[p] = "lookup" /\ pc'[p] # "lookup")
       => /\ cached'[p] <=> Live(p)
          /\ Live(p) =>
               \E r \in idem :
                 /\ r.key_hash = KeyHash(req[p])
                 /\ resp'[p] = [status |-> r.response_status, body |-> r.response_body]
                 /\ pc'[p] = "done"
          /\ ~Live(p) =>
               /\ pc'[p] = EntryPc(req[p]) /\ err'[p] = EntryErr(req[p])
               /\ resp'[p] = NoResp
               /\ UNCHANGED <<dbVars, idem, storeQ>>]_vars

\* The record of the first request has expired, and the second request with
\* the same key has missed it and is being executed.
C16_Witness ==
  \E r \in idem :
    /\ r.expires_at <= now
    /\ pc[1] = "done" /\ ~cached[1]
    /\ resp[1] = [status |-> r.response_status, body |-> r.response_body]
    /\ KeyHash(req[2]) = r.key_hash
    /\ pc[2] = "begin" /\ ~cached[2]

\* C17: the idempotency record is stored outside the unit of work and after
\* it has ended.  While a store is pending its request has been answered,
\* holds no lock and has no uncommitted write; the step that ends a store,
\* inserting or failing, changes no account, no row, no lock and no
\* response; and no committed row is ever removed.
C17_StoreOutsideUnitOfWork ==
  /\ [](\A p \in Reqs :
         storeQ[p] # NoStore =>
           /\ pc[p] = "done" /\ resp[p] # NoResp
           /\ UpdatedBy(p) = {} /\ wTx[p] = {}
           /\ \A a \in AccountIds : lockHolder[a] # p)
  /\ [][/\ \A t \in log : t \in log'
        /\ \A p \in Reqs :
             (storeQ[p] # NoStore /\ storeQ'[p] = NoStore)
             => UNCHANGED <<dbVars, lockHolder, pc, resp, err, wAcc, wTx>>]_vars

\* A deposit with a key has committed and was answered with 201; its store
\* has failed (no record exists) and its row and balance are in place.
C17_Witness ==
  \E p \in Reqs :
    /\ Committed(p) /\ pc[p] = "done" /\ req[p].op = "DEPOSIT"
    /\ storeQ[p] = NoStore /\ idem = {}
    /\ resp[p].status = 201
    /\ \E t \in log : t.id = TxId(p, 1) /\ t.balance_after = accounts[1].balance
    /\ accounts[1].balance = accounts0[1].balance + req[p].amount

\* C18: an account's version never decreases; a committed balance mutation
\* raises the version of each account it updates by exactly 1 (inside the
\* unit of work too: an updated account carries the committed version plus
\* 1); a step that commits nothing for an account, in particular the end of
\* a failed or aborted operation, leaves the account's version as it was.
C18_VersionIncrement ==
  /\ [](\A p \in Reqs : \A a \in UpdatedBy(p) :
         wAcc[p][a].version = accounts[a].version + 1)
  /\ [][\A a \in AccountIds :
          /\ accounts'[a].version >= accounts[a].version
          /\ IF \E p \in Reqs : pc[p] = "commit" /\ pc'[p] = "respond"
                                  /\ a \in UpdatedBy(p)
             THEN /\ accounts'[a].version = accounts[a].version + 1
                  /\ accounts'[a].balance # accounts[a].balance
             ELSE accounts'[a] = accounts[a]]_vars

\* A deposit or withdrawal has committed on one account, whose version is 1
\* higher; a transfer that had updated both accounts failed, and the other
\* account's version is unchanged.
C18_Witness ==
  \E p, q \in Reqs : \E a, b \in AccountIds :
    /\ a # b
    /\ Committed(p) /\ req[p].account_id = a
    /\ pc[q] = "done" /\ req[q].op = "TRANSFER" /\ err[q] = "ForeignKeyViolation"
    /\ accounts[a].version = accounts0[a].version + 1
    /\ accounts[b].version = accounts0[b].version

\* C19: updateAccountBalance(id, newBalance, expectedVersion) writes the
\* account only when the stored version equals expectedVersion, and then
\* sets the balance and raises the version by 1; when the stored version
\* differs, or the account does not exist, the call fails with
\* VersionConflict and writes nothing; the stored balance and version
\* change only when a unit of work whose call succeeded commits.
C19_VersionCheckedUpdate ==
  [][/\ \A p \in Callers :
          (pc[p] = "updateBalance" /\ pc'[p] # "updateBalance")
          => LET id == req[p].account_id
                 stored == accounts[id]
             IN IF ~stored.exists \/ stored.version # req[p].version
                THEN /\ err'[p] = "VersionConflict"
                     /\ wAcc' = wAcc /\ accounts' = accounts
                ELSE IF req[p].new_balance < 0
                THEN /\ err'[p] = "CheckViolation"
                     /\ wAcc' = wAcc /\ accounts' = accounts
                ELSE /\ err'[p] = "none"
                     /\ wAcc'[p][id] = [written |-> TRUE,
                                        balance |-> req[p].new_balance,
                                        version |-> req[p].version + 1]
     /\ \A a \in AccountIds :
          accounts'[a] # accounts[a] =>
            \E p \in Callers :
              /\ pc[p] = "commit" /\ err[p] = "none" /\ req[p].account_id = a
              /\ accounts[a].version = req[p].version
              /\ accounts'[a].balance = req[p].new_balance
              /\ accounts'[a].version = req[p].version + 1]_vars

\* Two callers held the same version of account 1: one has committed its
\* update, the other has failed with VersionConflict, and the stored row is
\* the first one's.
C19_Witness ==
  \E p, q \in Callers :
    /\ p # q
    /\ req[p].account_id = 1 /\ req[q].account_id = 1
    /\ req[p].op = "UPDATE_BALANCE" /\ req[q].op = "UPDATE_BALANCE"
    /\ req[p].version = req[q].version
    /\ req[p].new_balance # req[q].new_balance /\ req[q].new_balance >= 0
    /\ Committed(p) /\ pc[q] = "done" /\ err[q] = "VersionConflict"
    /\ accounts[1].balance = req[p].new_balance
    /\ accounts[1].version = req[p].version + 1

\* The finished creates for request p's owner and currency.
CreatesLike(p) ==
  {q \in Reqs : /\ pc[q] \in {"respondCreate", "done"}
                /\ req[q].user_id = req[p].user_id
                /\ req[q].currency = req[p].currency}

\* C20: createAccount adds an account of the owner and currency with
\* balance 0 and version 0, and fails on the unique constraint, leaving the
\* table as it was, when the owner has an account of that currency; of the
\* creates for one (owner, currency), in any interleaving, exactly one
\* succeeds, and no state holds two accounts of one (owner, currency).
C20_CreateAccount ==
  /\ [](\A a, b \in AccountIds :
         (accounts[a].exists /\ accounts[b].exists
            /\ accounts[a].user_id = accounts[b].user_id
            /\ accounts[a].currency = accounts[b].currency) => a = b)
  /\ [](\A p \in Reqs :
         pc[p] \in {"respondCreate", "done"} =>
           Cardinality({q \in CreatesLike(p) : err[q] = "none"}) = 1)
  /\ [][\A p \in Reqs :
          (pc[p] = "createAccount" /\ pc'[p] # "createAccount")
          => IF \E a \in AccountIds :
                   /\ accounts[a].exists
                   /\ accounts[a].user_id = req[p].user_id
                   /\ accounts[a].currency = req[p].currency
             THEN err'[p] = "UniqueViolation" /\ accounts' = accounts
             ELSE /\ err'[p] = "none"
                  /\ \E id \in AccountIds :
                       /\ ~accounts[id].exists
                       /\ accounts'[id] =
                            [exists |-> TRUE, id |-> id, user_id |-> req[p].user_id,
                             currency |-> req[p].currency, balance |-> 0,
                             version |-> 0]
                       /\ account'[p] = accounts'[id]
                       /\ \A o \in AccountIds \ {id} : accounts'[o] = accounts[o]]_vars

\* Two concurrent creates for one owner and currency have finished: one was
\* answered with 201 and the account, at balance 0 and version 0, the other
\* with 409, and the table holds that one account.
C20_Witness ==
  \E p, q \in Reqs :
    /\ pc[p] = "done" /\ pc[q] = "done"
    /\ req[p].user_id = req[q].user_id /\ req[p].currency = req[q].currency
    /\ err[p] = "none" /\ err[q] = "UniqueViolation"
    /\ resp[p].status = 201 /\ resp[q].status = 409
    /\ resp[p].body.rows[1].balance = 0 /\ resp[p].body.rows[1].version = 0
    /\ Cardinality({a \in AccountIds : accounts[a].exists}) = 1


\* ---- C21
\* The request asks for a page >= 1 with a limit in 1..MaxLimit.
ValidPaging(r) ==
  /\ QueryParams(r).page # <<>> /\ QueryParams(r).page[1] >= 1
  /\ QueryParams(r).limit # <<>> /\ QueryParams(r).limit[1] \in 1..MaxLimit

\* C21: getTransactionHistory on a valid page and limit returns at most
\* limit rows, all committed rows of the account, ordered by created_at
\* descending (the first page holds the newest rows, and is full when the
\* account has that many); total is the exact number of the account's
\* committed rows when it is counted, and total_pages = ceil(total / limit).
C21_History ==
  [][\A p \in Readers :
       /\ (pc[p] = "historyCount" /\ pc'[p] = "historySelect")
          => result'[p][1].total =
               Cardinality({t \in log : t.account_id = req[p].account_id})
       /\ (pc[p] = "historySelect" /\ pc'[p] # "historySelect"
           /\ ValidPaging(req[p]))
          => /\ err'[p] = "none"
             /\ LET h == result'[p][1]
                    mine == {t \in log : t.account_id = req[p].account_id}
                    got == {h.data[i] : i \in DOMAIN h.data}
                    n == Cardinality(mine)
                IN /\ h.page = QueryParams(req[p]).page[1]
                   /\ h.limit = QueryParams(req[p]).limit[1]
                   /\ Len(h.data) <= h.limit
                   /\ got \subseteq mine
                   /\ Cardinality(got) = Len(h.data)
                   /\ \A i, j \in DOMAIN h.data :
                        i < j => h.data[i].created_at >= h.data[j].created_at
                   /\ h.page = 1
                      => /\ Len(h.data) = (IF n < h.limit THEN n ELSE h.limit)
                         /\ \A t \in mine \ got, u \in got :
                              t.created_at <= u.created_at
                   /\ h.total = result[p][1].total
                   /\ h.total_pages * h.limit >= h.total
                   /\ (h.total_pages - 1) * h.limit < h.total]_vars

\* A first page of two rows, the newer first, of an account with three rows.
C21_Witness ==
  \E p \in Readers :
    /\ pc[p] = "done" /\ err[p] = "none" /\ req[p].op = "HISTORY"
    /\ ValidPaging(req[p])
    /\ Len(result[p]) = 1
    /\ LET h == result[p][1]
       IN /\ h.page = 1 /\ h.limit = 2 /\ Len(h.data) = 2
          /\ h.data[1].created_at > h.data[2].created_at
          /\ h.total = 3 /\ h.total_pages = 2

\* ---- C22
\* The caller gave a page below 1, or a limit below 1 or above MaxLimit.
InvalidPaging(r) ==
  \/ r.page # <<>> /\ r.page[1] < 1
  \/ r.limit # <<>> /\ (r.limit[1] < 1 \/ r.limit[1] > MaxLimit)

\* C22: every history query whose page is below 1 or whose limit is
\* outside 1..100 ends with an error, never with a result.
C22_RejectsInvalidPaging ==
  \A p \in Readers :
    (pc[p] = "done" /\ req[p].op = "HISTORY" /\ InvalidPaging(req[p]))
      => err[p] # "none"

\* ---- C23
\* The errors recordTransaction and transfer throw by name.
DomainErrors == PreconditionErrors \cup {"AccountNotFound", "VersionConflict"}

\* C23: a transfer refused for different currencies is answered 400 with a
\* message containing 'different currencies', and no request that failed
\* with a domain error of transfer or recordTransaction is answered 500.
C23_DomainErrorsNot500 ==
  \A p \in Reqs :
    (pc[p] = "done" /\ ~cached[p])
      => /\ err[p] = "CurrencyMismatch"
            => /\ resp[p].status = 400
               /\ Includes(resp[p].body.error, "different currencies")
         /\ err[p] \in DomainErrors => resp[p].status # 500

\* ---- C24
\* What a transaction row adds to its account's balance.
Signed(t) ==
  IF t.type \in {"DEPOSIT", "TRANSFER_CREDIT"} THEN t.amount ELSE 0 - t.amount

\* The balance account a has by the rows of the transaction log rows.
Reconciled(rows, a) ==
  LET mine == {t \in rows : t.account_id = a}
  IN SumOver(mine, [t \in mine |-> Signed(t)])

\* C24: reconciliation.  In every committed state every account's balance
\* is the sum of its DEPOSIT and TRANSFER_CREDIT amounts minus the sum of
\* its WITHDRAWAL and TRANSFER_DEBIT amounts.
C24_Reconciliation ==
  \A a \in AccountIds : accounts[a].balance = Reconciled(log, a)

\* An account with a committed deposit and a committed withdrawal of two
\* requests, next to the deposit that funded it.
C24_Witness ==
  \E a \in AccountIds, p, q \in Reqs :
    /\ p # q /\ Committed(p) /\ Committed(q)
    /\ req[p].op = "DEPOSIT" /\ req[q].op = "WITHDRAWAL"
    /\ req[p].account_id = a /\ req[q].account_id = a
    /\ Cardinality({t \in log : t.account_id = a}) = 3
    /\ accounts[a].balance = Reconciled(log, a)

\* ---- C25
\* C25: the transaction log is append-only and its rows are immutable: no
\* step of a deposit, withdrawal or transfer, succeeding or failing, changes
\* or removes a row committed earlier (a changed row would be a row that
\* left the table and another that entered it).
C25_AppendOnly == [][log \subseteq log']_vars

\* Both requests have finished, one committed a row and the other was
\* rolled back, and the rows of the initial deposits are still there.
C25_Witness ==
  \E p, q \in Reqs :
    /\ pc[p] = "done" /\ pc[q] = "done"
    /\ Committed(p) /\ Failed(q)
    /\ \E t \in log : t.id = TxId(p, 1)
    /\ \A a \in AccountIds :
         accounts0[a].balance > 0 /\ InitialDeposit(a, accounts0[a].balance) \in log

\* ---- C26
\* C26: getBalance never waits for the account's row lock and takes no lock;
\* for an absent account it fails with 'Account not found'; otherwise it
\* returns a committed balance, the one the committed rows of the account
\* add up to: never a balance written by a unit of work that has not
\* committed.
C26_GetBalance ==
  [][\A p \in Clients :
       pc[p] = "getBalance"
         => /\ ENABLED GetBalance(p)
            /\ pc'[p] # "getBalance"
               => /\ lockHolder' = lockHolder
                  /\ IF accounts[req[p].account_id].exists
                     THEN /\ err'[p] = "none"
                          /\ result'[p][1].balance =
                               Reconciled(log, req[p].account_id)
                     ELSE err'[p] = "AccountNotFound"]_vars

\* A balance was returned while another request held the account's lock
\* with an uncommitted update to a different balance.
C26_Witness ==
  \E p, q \in Clients :
    /\ req[p].op = "BALANCE" /\ pc[p] \in {"respondBalance", "done"}
    /\ err[p] = "none"
    /\ lockHolder[req[p].account_id] = q
    /\ wAcc[q][req[p].account_id].written
    /\ wAcc[q][req[p].account_id].balance # result[p][1].balance
    /\ result[p][1].balance = accounts[req[p].account_id].balance

\* ---- C27
\* C27: a transfer with from = to fails with 'Cannot transfer to the same
\* account' before a unit of work is opened or a lock requested: it is never
\* at a position inside a unit of work, requests and holds no lock, writes
\* nothing, and its steps leave the accounts and the log as they are.
C27_SameAccount ==
  [][\A p \in Reqs :
       SameAccount(req'[p])
         => /\ pc'[p] \in {"respond", "done"}
            /\ err'[p] = "SameAccount"
            /\ lockReqs'[p] = <<>>
            /\ \A a \in AccountIds : lockHolder'[a] # p
            /\ wAcc'[p] = NoWrites /\ wTx'[p] = {}
            /\ pc'[p] # pc[p]
               => accounts' = accounts /\ log' = log /\ lockHolder' = lockHolder]_vars

\* A transfer from an account to itself has been answered; the other request
\* has committed meanwhile.
C27_Witness ==
  \E p, q \in Reqs :
    /\ pc[p] = "done" /\ SameAccount(req[p]) /\ err[p] = "SameAccount"
    /\ resp[p].status = 500
    /\ Committed(q) /\ req[q].account_id = req[p].from_account_id

\* ---- C28
\* Request p's unit of work has locked account a: its SELECT ... FOR UPDATE
\* of the row has returned and the unit of work has not ended.
HasLocked(p, a) ==
  accounts[a].exists /\ \E i \in DOMAIN lockReqs[p] : lockReqs[p][i] = a

\* C28: mutual exclusion.  No two units of work have an account locked at
\* the same time; a unit of work that has locked an account is the holder of
\* its row lock until its own COMMIT or ROLLBACK; and a unit of work has
\* updated only balances of accounts whose lock it holds.
C28_MutualExclusion ==
  [][\A a \in AccountIds :
       /\ \A p, q \in Reqs : (HasLocked(p, a))' /\ (HasLocked(q, a))' => p = q
       /\ \A p \in Reqs :
            /\ (HasLocked(p, a))' => lockHolder'[a] = p
            /\ (HasLocked(p, a) /\ ~(HasLocked(p, a))')
                 => pc[p] \in {"commit", "rollback"} /\ pc'[p] = "respond"
            /\ wAcc'[p][a].written => lockHolder'[a] = p]_vars

\* A request waits for the lock of an account that another request has
\* locked and updated.
C28_Witness ==
  \E p, q \in Reqs, a \in AccountIds :
    /\ p # q
    /\ HasLocked(p, a) /\ lockHolder[a] = p /\ wAcc[p][a].written
    /\ Blocked(q) /\ Wanted(q) = a

\* ---- C29
\* The accounts a request touches.
Touched(r) ==
  IF r.op = "TRANSFER" THEN {r.from_account_id, r.to_account_id} ELSE {r.account_id}

\* Request p is inside its operation, between arrival and the end of its
\* unit of work.
InProgress(p) == pc[p] \in {"begin", "rollback"} \cup StatementPcs

\* The next statement of request p can run now.
CanStep(p) ==
  ENABLED (Begin(p) \/ RecordTransaction(p) \/ Transfer(p) \/ Commit(p) \/ Rollback(p))

\* C29: operations on disjoint sets of accounts never wait for each other.
\* While two operations that share no account are in progress, the next
\* statement of each can run; and an operation whose next statement cannot
\* run is waiting for the lock of an account that it shares with the
\* operation holding that lock.
C29_DisjointParallel ==
  /\ \A p, q \in Reqs :
       (p # q /\ InProgress(p) /\ InProgress(q)
        /\ Touched(req[p]) \cap Touched(req[q]) = {})
         => CanStep(p) /\ CanStep(q)
  /\ \A p \in Reqs :
       (InProgress(p) /\ ~CanStep(p))
         => \E q \in Reqs \ {p} :
              /\ lockHolder[Wanted(p)] = q
              /\ Wanted(p) \in Touched(req[p]) \cap Touched(req[q])

\* Two operations on different accounts, each holding its account's lock
\* with an uncommitted update.
C29_Witness ==
  \E p, q \in Reqs :
    /\ p # q /\ InProgress(p) /\ InProgress(q)
    /\ Touched(req[p]) \cap Touched(req[q]) = {}
    /\ \E a \in Touched(req[p]) : lockHolder[a] = p /\ wAcc[p][a].written
    /\ \E a \in Touched(req[q]) : lockHolder[a] = q /\ wAcc[q][a].written

\* ---- C30
\* The phase of request p's operation.
Phase(p) ==
  IF pc[p] \in {"idle", "lookup"} THEN "NotStarted"
  ELSE IF pc[p] = "begin" /\ err[p] = "none" THEN "Pending"
  ELSE IF pc[p] \in LockPcs THEN "Locking"
  ELSE IF pc[p] \in {"rtUpdate", "tfUpdateFrom"} THEN "Validating"
  ELSE IF pc[p] \in {"rtInsert", "tfUpdateTo", "tfInsert", "commit"} THEN "Mutating"
  ELSE IF err[p] = "none" THEN "Committed"
  ELSE "Aborted"

\* The order of the phases: a phase is followed by itself, by the next one,
\* or by Aborted.
PhaseOrder ==
  {<<"NotStarted", "Pending">>, <<"Pending", "Locking">>, <<"Locking", "Validating">>,
   <<"Validating", "Mutating">>, <<"Mutating", "Committed">>}
    \cup {<<ph, "Aborted">> : ph \in {"NotStarted", "Pending", "Locking",
                                       "Validating", "Mutating"}}

\* The checks of request p's operation pass on the rows it read under lock.
ValidationPassed(p) ==
  IF req[p].op = "TRANSFER"
  THEN TransferCheck(fromAccount[p], toAccount[p], req[p].amount) = "ok"
  ELSE /\ account[p].exists
       /\ req[p].op = "WITHDRAWAL" => account[p].balance - req[p].amount >= 0

\* Request p's unit of work has written something.
HasWritten(p) == wTx[p] # {} \/ \E a \in AccountIds : wAcc[p][a].written

\* C30: every operation goes through Pending, Locking, Validating, Mutating,
\* Committed in this order, or to Aborted; a unit of work writes only in
\* the Mutating phase, after its checks have passed on the rows it locked
\* (what it has written stays until its ROLLBACK); under fair scheduling
\* every started operation ends, committed or aborted, and no wait for a
\* lock lasts forever.
C30_Lifecycle ==
  /\ [][\A p \in Reqs :
          /\ Phase(p)' # Phase(p) => <<Phase(p), Phase(p)'>> \in PhaseOrder
          /\ (HasWritten(p))' /\ (Phase(p))' # "Aborted"
               => (Phase(p))' = "Mutating" /\ (ValidationPassed(p))'
          /\ (~HasWritten(p) /\ (HasWritten(p))')
               => Phase(p) \in {"Validating", "Mutating"} /\ ValidationPassed(p)]_vars
  /\ \A p \in Reqs :
       /\ (Phase(p) = "Pending") ~> (Phase(p) \in {"Committed", "Aborted"}
                                      /\ pc[p] \in {"respond", "done"})
       /\ Blocked(p) ~> ~Blocked(p)

\* Two transfers in opposite directions waited for each other; the one the
\* deadlock detector chose was aborted, and both have ended.
C30_Witness ==
  \E p, q \in Reqs :
    /\ p # q
    /\ pc[p] = "done" /\ err[p] = "DeadlockDetected"
    /\ pc[q] = "done" /\ req[q].op = "TRANSFER" /\ err[q] # "DeadlockDetected"

\* ---- C31
\* C31: deadlock freedom.  In no reachable state is a unit of work on a
\* cycle of units of work each waiting for a lock that the next one holds,
\* whatever transfers run concurrently.
C31_NoWaitCycle == \A p \in Reqs : ~InCycle(p)

\* ---- C32
\* C32: once the unit-of-work helper has returned or thrown, on whichever
\* path (COMMIT, an error in the callback, a failing COMMIT, a failing
\* ROLLBACK), no row lock taken inside that unit of work is still held and
\* none of its writes is still pending.
C32_NothingHeldAfterExit ==
  \A p \in Clients :
    pc[p] \in {"respond", "done"}
      => /\ \A a \in AccountIds : lockHolder[a] # p
         /\ wAcc[p] = NoWrites /\ wTx[p] = {}

\* ---- C33
\* Every non-null related_transaction_id of rows refers to a row of rows.
Referenced(rows) ==
  \A t \in rows :
    t.related_transaction_id # 0
      => \E u \in rows : u.id = t.related_transaction_id

\* C33: referential integrity after every statement.  The committed log and
\* the rows every unit of work sees never hold a row whose
\* related_transaction_id refers to no row; and when a transfer's statements
\* have inserted its TRANSFER_DEBIT row, the row it refers to existed in what
\* the unit of work saw right after that INSERT, before the TRANSFER_CREDIT
\* INSERT.
C33_ReferentialIntegrity ==
  [][/\ (Referenced(log))'
     /\ \A p \in Reqs :
          /\ (Referenced(ViewLog(p)))'
          /\ \A d \in wTx'[p] \ wTx[p] :
               d.type = "TRANSFER_DEBIT" => Referenced(ViewLog(p) \cup {d})]_vars

\* A transfer that passed its checks and updated both balances had its
\* TRANSFER_DEBIT INSERT refused by the foreign key: it holds no row and is
\* about to roll back.
C33_Witness ==
  \E p \in Reqs :
    /\ req[p].op = "TRANSFER" /\ pc[p] = "rollback"
    /\ err[p] = "ForeignKeyViolation"
    /\ UpdatedBy(p) = {req[p].from_account_id, req[p].to_account_id}
    /\ wTx[p] = {}

\* ---- C34
NotFoundErrors == {"AccountNotFound", "FromAccountNotFound", "ToAccountNotFound"}

\* The first check of transfer that request r fails on the committed
\* accounts, in the order SameAccount, source exists, destination exists,
\* CurrencyMismatch, InsufficientFunds ("none": it passes all).
FirstFailing(r) ==
  IF r.from_account_id = r.to_account_id THEN "SameAccount"
  ELSE IF ~accounts[r.from_account_id].exists THEN "FromAccountNotFound"
  ELSE IF ~accounts[r.to_account_id].exists THEN "ToAccountNotFound"
  ELSE IF accounts[r.from_account_id].currency # accounts[r.to_account_id].currency
       THEN "CurrencyMismatch"
  ELSE IF accounts[r.from_account_id].balance < r.amount THEN "InsufficientFunds"
  ELSE "none"

\* C34: an operation on an account that does not exist fails with the
\* account-not-found error, has written nothing, and when its unit of work
\* has ended holds no lock; a transfer's checks report the first failing one
\* of SameAccount, source exists, destination exists, CurrencyMismatch,
\* InsufficientFunds.
C34_AccountNotFound ==
  [][\A p \in Clients :
       /\ (req[p].op \in {"DEPOSIT", "WITHDRAWAL"} /\ pc[p] = "rtLock"
           /\ pc'[p] # "rtLock" /\ err'[p] # "InternalFailure"
           /\ ~accounts[req[p].account_id].exists)
            => err'[p] = "AccountNotFound" /\ pc'[p] = "rollback"
       /\ (req'[p].op = "TRANSFER" /\ pc[p] = "idle" /\ pc'[p] # "idle"
           /\ FirstFailing(req'[p]) = "SameAccount")
            => err'[p] = "SameAccount"
       /\ (req[p].op = "TRANSFER" /\ pc[p] = "tfUpdateFrom"
           /\ pc'[p] # "tfUpdateFrom" /\ err'[p] # "InternalFailure")
            => IF FirstFailing(req[p]) = "none"
               THEN err'[p] \notin PreconditionErrors
               ELSE err'[p] = FirstFailing(req[p]) /\ pc'[p] = "rollback"
       /\ err'[p] \in NotFoundErrors
            => /\ ~(HasWritten(p))'
               /\ pc'[p] # pc[p] => accounts' = accounts /\ log' = log
               /\ pc'[p] \in {"respond", "done"}
                    => \A a \in AccountIds : lockHolder'[a] # p]_vars

\* A transfer to an account that does not exist fails with 'To account not
\* found' while it holds the lock of its source, which exists.
C34_Witness ==
  \E p \in Clients :
    /\ req[p].op = "TRANSFER" /\ pc[p] = "rollback"
    /\ err[p] = "ToAccountNotFound"
    /\ accounts[req[p].from_account_id].exists
    /\ lockHolder[req[p].from_account_id] = p
    /\ ~accounts[req[p].to_account_id].exists

\* ---- C35
\* C35: in every committed state every account's version is the number of
\* transaction rows recorded for it.
C35_VersionCountsRows ==
  \A a \in AccountIds :
    accounts[a].version = Cardinality({t \in log : t.account_id = a})

\* An account at version 3 with three rows: the deposit that funded it and
\* the rows of two committed requests.
C35_Witness ==
  \E a \in AccountIds :
    /\ accounts[a].version = 3
    /\ Cardinality({t \in log : t.account_id = a}) = 3
    /\ \E p, q \in Reqs :
         /\ p # q
         /\ Committed(p) /\ pc[p] = "done" /\ req[p].account_id = a
         /\ Committed(q) /\ pc[q] = "done" /\ req[q].account_id = a

\* ---- C36
\* The rows of account a have different creation times, so that ORDER BY
\* created_at DESC lists them in one order only.
DistinctStamps(a) ==
  \A t, u \in RowsOf(a) : t # u => t.created_at # u.created_at

\* C36: for every account with a row, the row the history lists first has
\* balance_after equal to the committed balance, and every row's
\* balance_after results from applying the row to the balance_after of the
\* row listed after it.
C36_HistoryChain ==
  \A a \in AccountIds :
    (RowsOf(a) # {} /\ DistinctStamps(a))
      => \A s \in OrderedDesc(RowsOf(a)) :
           /\ s[1].balance_after = accounts[a].balance
           /\ \A i \in 1..(Len(s) - 1) :
                s[i].balance_after = s[i + 1].balance_after + Signed(s[i])

\* ---- C37
\* C37: VersionConflict is unreachable.  No deposit, withdrawal or transfer
\* ends with 'Concurrent modification', and whenever one of them is about
\* to call updateAccountBalance, the version it read under the lock is the
\* version stored.
C37_NoVersionConflict ==
  \A p \in Reqs :
    /\ err[p] # "VersionConflict"
    /\ (pc[p] = "rtUpdate" /\ account[p].exists)
         => account[p].version = accounts[account[p].id].version
    /\ (pc[p] = "tfUpdateFrom" /\ fromAccount[p].exists)
         => fromAccount[p].version = accounts[fromAccount[p].id].version
    /\ (pc[p] \in {"tfUpdateFrom", "tfUpdateTo"} /\ toAccount[p].exists)
         => toAccount[p].version = accounts[toAccount[p].id].version

\* A request locked the account after the other had committed on it, read
\* the new version under the lock and updated the row with it.
C37_Witness ==
  \E p, q \in Reqs, a \in AccountIds :
    /\ p # q
    /\ Committed(q) /\ req[q].account_id = a
    /\ req[p].op \in {"DEPOSIT", "WITHDRAWAL"} /\ req[p].account_id = a
    /\ pc[p] = "rtInsert"
    /\ account[p].version = accounts0[a].version + 1
    /\ wAcc[p][a].written /\ wAcc[p][a].version = accounts0[a].version + 2

\* C38: the idempotency layer caches the first response produced for a key
\* hash whatever its status.  Every response a keyed request sends, an error
\* as much as a success, is handed to the store with its own status and
\* body, and the store inserts it when the key hash has no record.  A later
\* request whose lookup finds the unexpired record is answered with the
\* stored status and body and is not executed (no account and no row
\* changes, its handler is not entered), whatever its own body asks for and
\* whatever the balances are by then.
C38_ErrorsCached ==
  /\ [][\A p \in Reqs :
          (pc[p] = "respond" /\ pc'[p] = "done" /\ req[p].key # <<>>) =>
            /\ resp'[p] = (IF err[p] = "none"
                           THEN [status |-> 201,
                                 body |-> [error |-> <<>>, rows |-> result[p]]]
                           ELSE ErrorResponse(err[p]))
            /\ storeQ'[p] = [key_hash |-> KeyHash(req[p]),
                             request_method |-> Method(req[p]),
                             request_path |-> Path(req[p]),
                             response_status |-> resp'[p].status,
                             response_body |-> resp'[p].body,
                             expires_at |-> now + ExpiryHours]]_vars
  /\ [][\A p \in Reqs :
          (storeQ[p] # NoStore /\ storeQ'[p] = NoStore /\ idem' # idem) =>
            idem' = idem \cup {storeQ[p]}]_vars
  /\ [][\A p \in Reqs :
          (pc[p] = "lookup" /\ pc'[p] # "lookup" /\ ValidRecords(p) # {}) =>
            /\ pc'[p] = "done" /\ cached'[p] /\ err'[p] = "none"
            /\ \E r \in ValidRecords(p) :
                 resp'[p] = [status |-> r.response_status, body |-> r.response_body]
            /\ UNCHANGED <<dbVars, lockHolder, txVars, idem, storeQ>>]_vars

\* A withdrawal with a key was refused with 400 Insufficient funds and its
\* response was stored; another client's deposit then raised the balance,
\* and a later request with the same key but another body, a withdrawal
\* that the balance now covers, was answered with the stored 400.
C38_Witness ==
  \E p, q \in Reqs, r \in idem :
    /\ p # q
    /\ pc[p] = "done" /\ ~cached[p] /\ req[p].op = "WITHDRAWAL"
    /\ resp[p].status = 400 /\ Includes(resp[p].body.error, "Insufficient funds")
    /\ r.key_hash = KeyHash(req[p]) /\ r.response_status = 400
    /\ pc[q] = "done" /\ cached[q] /\ resp[q] = resp[p]
    /\ KeyHash(req[q]) = KeyHash(req[p]) /\ req[q] # req[p]
    /\ req[q].op = "WITHDRAWAL" /\ req[q].amount <= accounts[1].balance
    /\ accounts[1].balance > accounts0[1].balance

\* A record of key hash h exists and has expired.
Expired(h) == \E r \in idem : r.key_hash = h /\ r.expires_at <= now

\* C39: once the record of a key hash has expired it stays: no step removes
\* or replaces it, a store for that hash changes nothing, and every lookup
\* for that hash is a miss, so each later request with the key goes on to
\* its handler and is executed.
C39_ExpiredStaysExpired ==
  /\ [][\A r \in idem :
          r.expires_at <= now =>
            /\ r \in idem' /\ r.expires_at <= now'
            /\ \A t \in idem' : t.key_hash = r.key_hash => t = r]_vars
  /\ [][\A p \in Reqs :
          (storeQ[p] # NoStore /\ storeQ'[p] = NoStore /\ Expired(storeQ[p].key_hash))
            => idem' = idem]_vars
  /\ [][\A p \in Reqs :
          (pc[p] = "lookup" /\ pc'[p] # "lookup" /\ Expired(KeyHash(req[p]))) =>
            /\ ~cached'[p] /\ resp'[p] = NoResp
            /\ pc'[p] = EntryPc(req[p]) /\ err'[p] = EntryErr(req[p])]_vars

\* The record of the first request expired; the second request with the
\* same key missed it, was executed and committed its own row, and its
\* store has run: the one record is still the expired one of the first
\* request.
C39_Witness ==
  \E r \in idem :
    /\ idem = {r} /\ r.expires_at <= now
    /\ pc[1] = "done" /\ ~cached[1]
    /\ resp[1] = [status |-> r.response_status, body |-> r.response_body]
    /\ KeyHash(req[2]) = r.key_hash
    /\ pc[2] = "done" /\ ~cached[2] /\ Committed(2) /\ storeQ[2] = NoStore
    /\ resp[2] # resp[1]

\* The (method, path, key) triple of request p.
Triple(p) == <<req[p].method, req[p].path, req[p].idempotencyKey>>

\* C40 (as claimed): the string hashed into the key hash differs for
\* different (method, path, key) triples, also when the path or the key
\* holds ":": two requests whose triples differ never get the same key hash.
C40_DistinctTriplesDistinctHashes ==
  \A p, q \in Clients :
    (pc[p] = "lookup" /\ pc[q] = "lookup" /\ Triple(p) # Triple(q))
      => req[p].idempotencyKeyHash # req[q].idempotencyKeyHash
====
